---- MODULE Spec2Model ----
(***************************************************************************)
(* Ingredient normalisation and aggregation engine of KitchenOS:           *)
(*   lib/ingredient_parser.py      normalize_unit, parse_amount,           *)
(*                                 parse_ingredient                        *)
(*   lib/ingredient_aggregator.py  aggregate_ingredients and its helpers,  *)
(*                                 format_ingredient                       *)
(*   lib/ingredient_validator.py   is_malformed_ingredient,                *)
(*                                 repair_ingredient, validate_ingredients *)
(*                                                                         *)
(* The functions are pure.  Each one is an operator over strings (TLA+     *)
(* strings are sequences of characters: Len, \o, SubSeq, Head and Tail     *)
(* apply), and each specification draws the arguments of one function      *)
(* from a bounded set in Init and applies the function in one action.      *)
(* A Python exception is a result of its own: every function that can      *)
(* raise returns [exc, val], exc = "none" for a normal return.             *)
(***************************************************************************)
EXTENDS Integers, Sequences, FiniteSets, TLC

VARIABLES pc, arg, ret

vars == <<pc, arg, ret>>

(***************************************************************************)
(* Bounds of the model.                                                    *)
(***************************************************************************)
\* numbers 0..MaxNum are written into the structured amount inputs
MaxNum == 9
\* free token strings have at most this many tokens
MaxFree == 3
\* aggregate_ingredients is given at most this many records
MaxRecords == 3
\* the pipeline is followed for at most this many calls
MaxCalls == 3
\* the caller's first list holds at most this many dicts
MaxObjects == 2
\* validate_ingredients is given at most this many entries of the mixed set
MaxEntries == 2

(***************************************************************************)
(* Python str primitives.                                                  *)
(***************************************************************************)
Char(s, i) == SubSeq(s, i, i)

DropFirst(s, n) == SubSeq(s, n + 1, Len(s))

DigitChars == "0123456789"

Digits == {"0", "1", "2", "3", "4", "5", "6", "7", "8", "9"}

UpperChars == "ABCDEFGHIJKLMNOPQRSTUVWXYZ"

LowerChars == "abcdefghijklmnopqrstuvwxyz"

UpperSet == {Char(UpperChars, i) : i \in 1..26}

LowerSet == {Char(LowerChars, i) : i \in 1..26}

\* str.lower() of one character
ToLower == [c \in UpperSet |-> Char(LowerChars, CHOOSE i \in 1..26 : Char(UpperChars, i) = c)]

IsDigit(c) == c \in Digits

\* str.strip() and the regex class \s: of Python's whitespace the model's
\* alphabet holds the space only
IsSpace(c) == c = " "

\* the regex class \w over the model's alphabet: letters, digits, underscore
IsWordChar(c) == c \in Digits \/ c \in LowerSet \/ c \in UpperSet \/ c = "_"

LowerChar(c) == IF c \in UpperSet THEN ToLower[c] ELSE c

RECURSIVE lower(_)
lower(s) == IF s = "" THEN "" ELSE LowerChar(Head(s)) \o lower(Tail(s))

RECURSIVE lstrip(_)
lstrip(s) == IF s # "" /\ IsSpace(Head(s)) THEN lstrip(Tail(s)) ELSE s

RECURSIVE rstrip(_)
rstrip(s) ==
    IF s # "" /\ IsSpace(Char(s, Len(s)))
    THEN rstrip(SubSeq(s, 1, Len(s) - 1))
    ELSE s

strip(s) == rstrip(lstrip(s))

\* str.rstrip(chars): drops every trailing character that is in chars
RECURSIVE rstrip_chars(_, _)
rstrip_chars(s, chars) ==
    IF s # "" /\ \E i \in 1..Len(chars) : Char(chars, i) = Char(s, Len(s))
    THEN rstrip_chars(SubSeq(s, 1, Len(s) - 1), chars)
    ELSE s

startswith(s, p) == Len(p) <= Len(s) /\ SubSeq(s, 1, Len(p)) = p

endswith(s, p) == Len(p) <= Len(s) /\ SubSeq(s, Len(s) - Len(p) + 1, Len(s)) = p

\* str(n) of a natural number
RECURSIVE NatToStr(_)
NatToStr(n) ==
    IF n < 10
    THEN Char(DigitChars, n + 1)
    ELSE NatToStr(n \div 10) \o Char(DigitChars, (n % 10) + 1)

DigitVal(c) == (CHOOSE i \in 1..10 : Char(DigitChars, i) = c) - 1

\* int(s) of a non-empty run of digits
RECURSIVE ToNat(_)
ToNat(s) ==
    IF Len(s) = 1
    THEN DigitVal(s)
    ELSE 10 * ToNat(SubSeq(s, 1, Len(s) - 1)) + DigitVal(Char(s, Len(s)))

\* first index >= i of s that holds no digit (Len(s) + 1 when there is none)
RECURSIVE SkipDigits(_, _)
SkipDigits(s, i) ==
    IF i <= Len(s) /\ IsDigit(Char(s, i)) THEN SkipDigits(s, i + 1) ELSE i

\* first index >= i of s that holds no whitespace
RECURSIVE SkipSpaces(_, _)
SkipSpaces(s, i) ==
    IF i <= Len(s) /\ IsSpace(Char(s, i)) THEN SkipSpaces(s, i + 1) ELSE i

\* ^\d+$
AllDigits(s) == s # "" /\ \A i \in 1..Len(s) : IsDigit(Char(s, i))

\* ^\d+<sep>\d+$ for a one-character separator
TwoNumbers(s, sep) ==
    LET i == SkipDigits(s, 1)
    IN  /\ i > 1
        /\ i <= Len(s)
        /\ Char(s, i) = sep
        /\ AllDigits(DropFirst(s, i))

(***************************************************************************)
(* Results: a normal return or a raised exception.                         *)
(***************************************************************************)
Ok(v) == [exc |-> "none", val |-> v]

Raise(e) == [exc |-> e, val |-> ""]

(***************************************************************************)
(* Unit table and normalizer.                                              *)
(***************************************************************************)
UNIT_ABBREVIATIONS ==
    [u \in {"tablespoon", "tablespoons", "tbsp", "tbs", "T"} |-> "tbsp"] @@
    [u \in {"teaspoon", "teaspoons", "tsp", "t"} |-> "tsp"] @@
    [u \in {"cup", "cups"} |-> "cup"] @@
    [u \in {"ounce", "ounces", "oz"} |-> "oz"] @@
    [u \in {"pound", "pounds", "lb", "lbs"} |-> "lb"] @@
    [u \in {"gram", "grams", "g"} |-> "g"] @@
    [u \in {"kilogram", "kilograms", "kg"} |-> "kg"] @@
    [u \in {"milliliter", "milliliters", "ml"} |-> "ml"] @@
    [u \in {"liter", "liters", "l"} |-> "l"] @@
    [u \in {"clove", "cloves"} |-> "clove"] @@
    [u \in {"head", "heads"} |-> "head"] @@
    [u \in {"knob"} |-> "knob"] @@
    [u \in {"bunch", "bunches"} |-> "bunch"] @@
    [u \in {"sprig", "sprigs"} |-> "sprig"] @@
    [u \in {"slice", "slices"} |-> "slice"] @@
    [u \in {"piece", "pieces"} |-> "piece"] @@
    [u \in {"can", "cans"} |-> "can"]

\* normalize_unit with the case folded before the first lookup
normalize_unit_folded(unit) ==
    IF unit = "" THEN ""
    ELSE IF lower(unit) \in DOMAIN UNIT_ABBREVIATIONS
         THEN UNIT_ABBREVIATIONS[lower(unit)]
         ELSE lower(unit)

normalize_unit(unit) ==
    IF unit = "" THEN ""
    ELSE IF unit \in DOMAIN UNIT_ABBREVIATIONS THEN UNIT_ABBREVIATIONS[unit]
    ELSE IF lower(unit) \in DOMAIN UNIT_ABBREVIATIONS
         THEN UNIT_ABBREVIATIONS[lower(unit)]
         ELSE lower(unit)

(***************************************************************************)
(* Amount parser.                                                          *)
(***************************************************************************)
WORD_NUMBERS ==
    [w \in {"one"} |-> "1"] @@ [w \in {"two"} |-> "2"] @@
    [w \in {"three"} |-> "3"] @@ [w \in {"four"} |-> "4"] @@
    [w \in {"five"} |-> "5"] @@ [w \in {"six"} |-> "6"] @@
    [w \in {"seven"} |-> "7"] @@ [w \in {"eight"} |-> "8"] @@
    [w \in {"nine"} |-> "9"] @@ [w \in {"ten"} |-> "10"] @@
    [w \in {"eleven"} |-> "11"] @@ [w \in {"twelve"} |-> "12"]

\* round(n / d) to the nearest integer, a tie to the even one.  The code
\* rounds the binary double; the two agree unless n / d is within an ulp of a
\* tie that is no dyadic rational, which needs a reduced denominator of 40 or
\* more when n / d counts hundredths of a fraction N/D
RoundHalfEven(n, d) ==
    LET q == n \div d
        r == n % d
    IN  IF 2 * r < d THEN q
        ELSE IF 2 * r > d THEN q + 1
        ELSE IF q % 2 = 0 THEN q ELSE q + 1

\* f"{h / 100:.2f}" of a count h of hundredths
TwoPlaces(h) ==
    NatToStr(h \div 100) \o "." \o NatToStr((h % 100) \div 10) \o NatToStr(h % 10)

\* _format_decimal cutting the value off after two places instead of rounding
_format_decimal_truncating(num, den) ==
    IF num % den = 0
    THEN NatToStr(num \div den)
    ELSE rstrip_chars(rstrip_chars(TwoPlaces((100 * num) \div den), "0"), ".")

\* the float value is the rational num / den, den > 0
_format_decimal(num, den) ==
    IF num % den = 0
    THEN NatToStr(num \div den)
    ELSE rstrip_chars(rstrip_chars(TwoPlaces(RoundHalfEven(100 * num, den)), "0"), ".")

\* re.sub(r'(\d)\s*/\s*(\d)', r'\1/\2', s): matches are taken left to right
\* and do not overlap
RECURSIVE NormalizeSlashes(_)
NormalizeSlashes(s) ==
    IF s = "" THEN ""
    ELSE
        LET j == SkipSpaces(s, 2)
            k == SkipSpaces(s, j + 1)
        IN  IF /\ IsDigit(Head(s))
               /\ j <= Len(s)
               /\ Char(s, j) = "/"
               /\ k <= Len(s)
               /\ IsDigit(Char(s, k))
            THEN Head(s) \o "/" \o Char(s, k) \o NormalizeSlashes(DropFirst(s, k))
            ELSE Head(s) \o NormalizeSlashes(Tail(s))

\* ^(\d+)\s+(\d+/\d+)$
MixedMatch(s) ==
    LET i == SkipDigits(s, 1)
        j == SkipSpaces(s, i)
    IN  i > 1 /\ j > i /\ TwoNumbers(DropFirst(s, j - 1), "/")

\* Fraction("N/D") as <<N, D>>; the constructor raises ZeroDivisionError
\* when D is 0
FracNum(f) == ToNat(SubSeq(f, 1, SkipDigits(f, 1) - 1))

FracDen(f) == ToNat(DropFirst(f, SkipDigits(f, 1)))

parse_amount(amount_str) ==
    IF amount_str = "" THEN Ok("1")
    ELSE
        LET s == strip(amount_str)
            normalized == NormalizeSlashes(s)
        IN  IF lower(s) \in DOMAIN WORD_NUMBERS THEN Ok(WORD_NUMBERS[lower(s)])
            ELSE IF TwoNumbers(s, "-") THEN Ok(s)
            ELSE IF TwoNumbers(s, ".") THEN Ok(s)
            ELSE IF MixedMatch(normalized)
            THEN LET i == SkipDigits(normalized, 1)
                     whole == ToNat(SubSeq(normalized, 1, i - 1))
                     frac == DropFirst(normalized, SkipSpaces(normalized, i) - 1)
                 IN  IF FracDen(frac) = 0 THEN Raise("ZeroDivisionError")
                     ELSE Ok(_format_decimal(whole * FracDen(frac) + FracNum(frac),
                                             FracDen(frac)))
            ELSE IF TwoNumbers(normalized, "/")
            THEN IF FracDen(normalized) = 0 THEN Raise("ZeroDivisionError")
                 ELSE Ok(_format_decimal(FracNum(normalized), FracDen(normalized)))
            ELSE IF AllDigits(normalized) THEN Ok(normalized)
            ELSE Ok("1")

(***************************************************************************)
(* Ingredient string parser.                                               *)
(***************************************************************************)
INFORMAL_UNITS ==
    <<"a pinch", "a smidge", "a dash", "a sprinkle", "a handful", "a splash",
      "to taste", "as needed", "some", "a few", "a couple">>

KNOWN_UNITS == DOMAIN UNIT_ABBREVIATIONS \cup {"knob", "pinch", "dash", "splash"}

_clean_item(item) == rstrip_chars(strip(lower(item)), ",.;:")

\* sub in s
Contains(s, sub) ==
    \E i \in 1..(Len(s) - Len(sub) + 1) : SubSeq(s, i, i + Len(sub) - 1) = sub

\* str.rfind(sub) + 1, for a sub that occurs in s
LastIndexOf(s, sub) ==
    CHOOSE i \in 1..(Len(s) - Len(sub) + 1) :
        /\ SubSeq(s, i, i + Len(sub) - 1) = sub
        /\ \A j \in (i + 1)..(Len(s) - Len(sub) + 1) : SubSeq(s, j, j + Len(sub) - 1) # sub

\* the character class [\d/\s]
InQtyClass(c) == IsDigit(c) \/ c = "/" \/ IsSpace(c)

\* the character class [\d/.\s-]
InAmountClass(c) == IsDigit(c) \/ c = "/" \/ c = "." \/ IsSpace(c) \/ c = "-"

\* re.match(r'^[\d/\s]+\s*\w*$', s)
LooksLikeQuantity(s) ==
    \E i \in 1..Len(s) :
        /\ \A j \in 1..i : InQtyClass(Char(s, j))
        /\ \A j \in (i + 1)..Len(s) : IsWordChar(Char(s, j))

\* first index >= i of s outside [\d/.\s-]: the greedy group ([\d/.\s-]+) ends
\* before it
RECURSIVE SkipAmount(_, _)
SkipAmount(s, i) ==
    IF i <= Len(s) /\ InAmountClass(Char(s, i)) THEN SkipAmount(s, i + 1) ELSE i

_starts_with_informal(text) ==
    \E k \in 1..Len(INFORMAL_UNITS) : startswith(strip(lower(text)), INFORMAL_UNITS[k])

_parse_quantity_unit(text0) ==
    LET text == strip(text0)
        e == SkipAmount(text, 1)
        amount_part == SubSeq(text, 1, e - 1)
        unit_part == DropFirst(text, e - 1)
        amount == parse_amount(strip(amount_part))
    IN  IF \E k \in 1..Len(INFORMAL_UNITS) : lower(text) = INFORMAL_UNITS[k]
        THEN Ok([amount |-> "1", unit |-> lower(text)])
        ELSE IF e > 1
        THEN IF amount.exc # "none" THEN amount
             ELSE Ok([amount |-> amount.val,
                      unit |-> IF strip(unit_part) # ""
                               THEN normalize_unit(strip(unit_part))
                               ELSE "whole"])
        ELSE Ok([amount |-> "1", unit |-> "whole"])

\* the quote characters of the inch notation; of " ' and the two curly quotes
\* the model's alphabet holds the apostrophe
IsQuote(c) == c = "'"

\* re.sub(r'(\d+)\s*["\'“”]', r'\1 ', text)
RECURSIVE StripInchNotation(_)
StripInchNotation(s) ==
    IF s = "" THEN ""
    ELSE
        LET i == SkipDigits(s, 1)
            j == SkipSpaces(s, i)
        IN  IF i > 1 /\ j <= Len(s) /\ IsQuote(Char(s, j))
            THEN SubSeq(s, 1, i - 1) \o " " \o StripInchNotation(DropFirst(s, j))
            ELSE Head(s) \o StripInchNotation(Tail(s))

\* first index >= i of s that holds whitespace
RECURSIVE SkipWord(_, _)
SkipWord(s, i) ==
    IF i <= Len(s) /\ ~IsSpace(Char(s, i)) THEN SkipWord(s, i + 1) ELSE i

_parse_standard_format(text0) ==
    LET text == strip(StripInchNotation(text0))
        e == SkipAmount(text, 1)
        amount_part == strip(SubSeq(text, 1, e - 1))
        remainder == strip(DropFirst(text, e - 1))
        amount == IF amount_part # "" THEN parse_amount(amount_part) ELSE Ok("1")
        w == SkipWord(remainder, 1)
        first_word == lower(SubSeq(remainder, 1, w - 1))
        rest == lstrip(DropFirst(remainder, w - 1))
    IN  IF amount.exc # "none" THEN amount
        ELSE IF remainder = ""
        THEN Ok([amount |-> amount.val, unit |-> "whole", item |-> ""])
        ELSE IF first_word \in KNOWN_UNITS \/ first_word \in DOMAIN UNIT_ABBREVIATIONS
        THEN Ok([amount |-> amount.val, unit |-> normalize_unit(first_word),
                 item |-> _clean_item(rest)])
        ELSE Ok([amount |-> amount.val, unit |-> "whole", item |-> _clean_item(remainder)])

\* the informal-measurement strategy: the first phrase of the list, from the
\* k-th on, that the text starts with
RECURSIVE InformalPrefix(_, _)
InformalPrefix(text, k) ==
    IF k > Len(INFORMAL_UNITS) THEN 0
    ELSE IF startswith(lower(text), INFORMAL_UNITS[k]) THEN k
    ELSE InformalPrefix(text, k + 1)

\* parse_ingredient looking for the trailing "to taste" before the informal
\* prefix
parse_ingredient_taste_first(text0) ==
    IF text0 = "" THEN Ok([amount |-> "1", unit |-> "whole", item |-> ""])
    ELSE
        LET text == strip(text0)
            c == LastIndexOf(text, ", ")
            potential_item == SubSeq(text, 1, c - 1)
            potential_qty == DropFirst(text, c + 1)
            qty_parsed == _parse_quantity_unit(potential_qty)
            k == InformalPrefix(text, 1)
            remainder == strip(DropFirst(text, Len(INFORMAL_UNITS[k])))
        IN  IF /\ Contains(text, ", ")
               /\ (LooksLikeQuantity(potential_qty) \/ _starts_with_informal(potential_qty))
            THEN IF qty_parsed.exc # "none" THEN qty_parsed
                 ELSE Ok([amount |-> qty_parsed.val.amount,
                          unit |-> qty_parsed.val.unit,
                          item |-> _clean_item(potential_item)])
            ELSE IF endswith(lower(text), " to taste")
            THEN Ok([amount |-> "1", unit |-> "to taste",
                     item |-> _clean_item(strip(SubSeq(text, 1, Len(text) - 9)))])
            ELSE IF k > 0
            THEN Ok([amount |-> "1", unit |-> INFORMAL_UNITS[k],
                     item |-> IF remainder # "" THEN _clean_item(remainder) ELSE ""])
            ELSE _parse_standard_format(text)

parse_ingredient(text0) ==
    IF text0 = "" THEN Ok([amount |-> "1", unit |-> "whole", item |-> ""])
    ELSE
        LET text == strip(text0)
            c == LastIndexOf(text, ", ")
            potential_item == SubSeq(text, 1, c - 1)
            potential_qty == DropFirst(text, c + 1)
            qty_parsed == _parse_quantity_unit(potential_qty)
            k == InformalPrefix(text, 1)
            remainder == strip(DropFirst(text, Len(INFORMAL_UNITS[k])))
        IN  IF /\ Contains(text, ", ")
               /\ (LooksLikeQuantity(potential_qty) \/ _starts_with_informal(potential_qty))
            THEN IF qty_parsed.exc # "none" THEN qty_parsed
                 ELSE Ok([amount |-> qty_parsed.val.amount,
                          unit |-> qty_parsed.val.unit,
                          item |-> _clean_item(potential_item)])
            ELSE IF k > 0
            THEN Ok([amount |-> "1", unit |-> INFORMAL_UNITS[k],
                     item |-> IF remainder # "" THEN _clean_item(remainder) ELSE ""])
            ELSE IF endswith(lower(text), " to taste")
            THEN Ok([amount |-> "1", unit |-> "to taste",
                     item |-> _clean_item(strip(SubSeq(text, 1, Len(text) - 9)))])
            ELSE _parse_standard_format(text)

(***************************************************************************)
(* Ingredient aggregator.  A float is the rational [n, d], d > 0; None is  *)
(* NoFloat.  A record is a function from field names to strings, a missing *)
(* key being a field outside its domain.                                   *)
(***************************************************************************)
RECURSIVE GCD(_, _)
GCD(a, b) == IF b = 0 THEN a ELSE GCD(b, a % b)

Rat(n, d) == LET g == GCD(n, d) IN [n |-> n \div g, d |-> d \div g]

\* float('inf') and float('nan'): the two floats that are no rational
Inf == [n |-> 1, d |-> 0]

NaN == [n |-> -1, d |-> 0]

\* x + y of floats that are not negative
RatAdd(x, y) ==
    IF NaN \in {x, y} THEN NaN
    ELSE IF Inf \in {x, y} THEN Inf
    ELSE LET g == GCD(x.d, y.d)
         IN  Rat(x.n * (y.d \div g) + y.n * (x.d \div g), (x.d \div g) * y.d)

\* x * y of floats that are not negative: inf * 0 is nan
RatMul(x, y) ==
    IF NaN \in {x, y} THEN NaN
    ELSE IF Inf \in {x, y} THEN (IF x.n = 0 \/ y.n = 0 THEN NaN ELSE Inf)
    ELSE LET a == Rat(x.n, y.d)
             b == Rat(y.n, x.d)
         IN  [n |-> a.n * b.n, d |-> a.d * b.d]

\* x / y for a factor y of the unit tables
RatDiv(x, y) == RatMul(x, [n |-> y.d, d |-> y.n])

NoFloat == [n |-> 0, d |-> 0]

RECURSIVE Pow10(_)
Pow10(k) == IF k = 0 THEN 1 ELSE 10 * Pow10(k - 1)

\* ^\d+(?:\.\d+)?$
IsPlainNumber(s) == AllDigits(s) \/ TwoNumbers(s, ".")

\* float(s) for s matching \d+(\.\d+)?
PlainNumber(s) ==
    LET i == SkipDigits(s, 1)
    IN  IF i > Len(s) THEN Rat(ToNat(s), 1)
        ELSE Rat(ToNat(SubSeq(s, 1, i - 1)) * Pow10(Len(s) - i) + ToNat(DropFirst(s, i)),
                 Pow10(Len(s) - i))

\* float(s) accepts, over the model's alphabet of digits, point, hyphen, space
\* and letters: digits, digits.digits, digits. and .digits, and in any case
\* the words inf, infinity and nan (signs and exponents are outside the
\* amounts the model draws)
IsFloatLiteral(s) ==
    \/ IsPlainNumber(s)
    \/ Len(s) > 1 /\ Char(s, Len(s)) = "." /\ AllDigits(SubSeq(s, 1, Len(s) - 1))
    \/ Len(s) > 1 /\ Head(s) = "." /\ AllDigits(Tail(s))
    \/ lower(s) \in {"inf", "infinity", "nan"}

FloatLiteral(s) ==
    IF lower(s) \in {"inf", "infinity"} THEN Inf
    ELSE IF lower(s) = "nan" THEN NaN
    ELSE IF IsPlainNumber(s) THEN PlainNumber(s)
    ELSE IF Head(s) = "." THEN Rat(ToNat(Tail(s)), Pow10(Len(s) - 1))
    ELSE Rat(ToNat(SubSeq(s, 1, Len(s) - 1)), 1)

\* ^(\d+(?:\.\d+)?)\s*-\s*(\d+(?:\.\d+)?)$ : the index of the hyphen, 0 when
\* the text is no range
RangeHyphen(s) ==
    IF \E h \in 2..(Len(s) - 1) :
            /\ Char(s, h) = "-"
            /\ IsPlainNumber(rstrip(SubSeq(s, 1, h - 1)))
            /\ IsPlainNumber(lstrip(DropFirst(s, h)))
    THEN CHOOSE h \in 2..(Len(s) - 1) :
            /\ Char(s, h) = "-"
            /\ IsPlainNumber(rstrip(SubSeq(s, 1, h - 1)))
            /\ IsPlainNumber(lstrip(DropFirst(s, h)))
    ELSE 0

Get(r, k, default) == IF k \in DOMAIN r THEN r[k] ELSE default

VOLUME_UNITS ==
    ("tsp" :> [n |-> 1, d |-> 1]) @@ ("tbsp" :> [n |-> 3, d |-> 1]) @@
    ("cup" :> [n |-> 48, d |-> 1]) @@ ("ml" :> [n |-> 2029, d |-> 10000]) @@
    ("l" :> [n |-> 2029, d |-> 10])

WEIGHT_UNITS ==
    ("oz" :> [n |-> 1, d |-> 1]) @@ ("lb" :> [n |-> 16, d |-> 1]) @@
    ("g" :> [n |-> 17637, d |-> 500000]) @@ ("kg" :> [n |-> 17637, d |-> 500])

COUNT_UNITS ==
    {"clove", "cloves", "slice", "slices", "piece", "pieces", "bunch", "bunches",
     "head", "heads", "can", "cans", "package", "packages", "sprig", "sprigs",
     "whole"}

normalize_item_name(item) == IF item = "" THEN "" ELSE strip(lower(item))

get_unit_family(unit) ==
    IF unit = "" THEN "other"
    ELSE IF lower(unit) \in DOMAIN VOLUME_UNITS THEN "volume"
    ELSE IF lower(unit) \in DOMAIN WEIGHT_UNITS THEN "weight"
    ELSE IF lower(unit) \in COUNT_UNITS THEN "count"
    ELSE "other"

\* the argument is item.get('amount'): the record, not the field, is passed
\* so that a missing key reads as None
parse_amount_to_float(r) ==
    IF "amount" \notin DOMAIN r \/ r.amount = "" THEN NoFloat
    ELSE
        LET amount == strip(r.amount)
            h == RangeHyphen(amount)
        IN  IF amount = "" THEN NoFloat
            ELSE IF h > 0
            THEN RatMul(RatAdd(PlainNumber(rstrip(SubSeq(amount, 1, h - 1))),
                               PlainNumber(lstrip(DropFirst(amount, h)))),
                        [n |-> 1, d |-> 2])
            ELSE IF IsFloatLiteral(amount) THEN FloatLiteral(amount)
            ELSE NoFloat

convert_to_base_unit(amount, unit, family) ==
    IF family = "volume" /\ lower(unit) \in DOMAIN VOLUME_UNITS
    THEN RatMul(amount, VOLUME_UNITS[lower(unit)])
    ELSE IF family = "weight" /\ lower(unit) \in DOMAIN WEIGHT_UNITS
    THEN RatMul(amount, WEIGHT_UNITS[lower(unit)])
    ELSE amount

\* convert_from_base_unit leaving the total in the base unit
convert_from_base_unit_identity(amount, target_unit, family) == amount

convert_from_base_unit(amount, target_unit, family) ==
    IF family = "volume" /\ lower(target_unit) \in DOMAIN VOLUME_UNITS
    THEN RatDiv(amount, VOLUME_UNITS[lower(target_unit)])
    ELSE IF family = "weight" /\ lower(target_unit) \in DOMAIN WEIGHT_UNITS
    THEN RatDiv(amount, WEIGHT_UNITS[lower(target_unit)])
    ELSE amount

\* number of members of the sequence units equal, lowercased, to u
RECURSIVE UnitCount(_, _)
UnitCount(units, u) ==
    IF units = <<>> THEN 0
    ELSE (IF lower(Head(units)) = u THEN 1 ELSE 0) + UnitCount(Tail(units), u)

\* choose_best_output_unit with a tie going to the unit met last
choose_best_output_unit_last(total_base, family, original_units) ==
    IF original_units = <<>>
    THEN IF family = "volume" THEN "tsp"
         ELSE IF family = "weight" THEN "oz"
         ELSE "whole"
    ELSE
        LET last == CHOOSE i \in 1..Len(original_units) :
                /\ \A j \in 1..Len(original_units) :
                      UnitCount(original_units, lower(original_units[j]))
                          <= UnitCount(original_units, lower(original_units[i]))
                /\ \A j \in (i + 1)..Len(original_units) :
                      UnitCount(original_units, lower(original_units[j]))
                          < UnitCount(original_units, lower(original_units[i]))
        IN  lower(original_units[last])

\* max(unit_counts, key=unit_counts.get): the dict keeps insertion order and
\* max returns the first key of the greatest count
choose_best_output_unit(total_base, family, original_units) ==
    IF original_units = <<>>
    THEN IF family = "volume" THEN "tsp"
         ELSE IF family = "weight" THEN "oz"
         ELSE "whole"
    ELSE
        LET first == CHOOSE i \in 1..Len(original_units) :
                /\ \A j \in 1..Len(original_units) :
                      UnitCount(original_units, lower(original_units[j]))
                          <= UnitCount(original_units, lower(original_units[i]))
                /\ \A j \in 1..(i - 1) :
                      UnitCount(original_units, lower(original_units[j]))
                          < UnitCount(original_units, lower(original_units[i]))
        IN  lower(original_units[first])

\* the amounts that stand for the exception int(amount) raised inside
\* format_amount; no amount the model draws has a "<"
RAISED == ("<OverflowError>" :> "OverflowError") @@ ("<ValueError>" :> "ValueError")

\* round(amount, 2) as a count of hundredths: those of the integral part and
\* those of the fractional part, rounded; int(amount) raises OverflowError
\* for infinity and ValueError for not-a-number
format_amount(amount) ==
    IF amount = Inf THEN "<OverflowError>"
    ELSE IF amount = NaN THEN "<ValueError>"
    ELSE
    LET h == 100 * (amount.n \div amount.d)
                + RoundHalfEven(100 * (amount.n % amount.d), amount.d)
    IN  IF amount.n % amount.d = 0 THEN NatToStr(amount.n \div amount.d)
        ELSE IF h % 100 = 0 THEN NatToStr(h \div 100)
        ELSE rstrip_chars(rstrip_chars(TwoPlaces(h), "0"), ".")

\* the loop of sum_unit_family: the running total_base and original_units
RECURSIVE SumLoop(_, _, _, _)
SumLoop(items, family, total_base, original_units) ==
    IF items = <<>> THEN [total_base |-> total_base, original_units |-> original_units]
    ELSE
        LET item == Head(items)
            unit == Get(item, "unit", "")
        IN  \* amount and the total so far are computed once each: the bound
            \* names stand for their values
            CHOOSE acc \in
                {IF amount = NoFloat
                 THEN SumLoop(Tail(items), family, total, original_units)
                 ELSE SumLoop(Tail(items), family,
                              RatAdd(total, convert_to_base_unit(amount, unit, family)),
                              IF unit # "" THEN Append(original_units, unit)
                              ELSE original_units)
                 : <<amount, total>> \in {<<parse_amount_to_float(item), total_base>>}}
                : TRUE

\* dict.copy(): a new dict with the same fields.  A dict the caller holds
\* carries its address in the field "id"; the copy is not that dict
copy(r) == [k \in DOMAIN r \ {"id"} |-> r[k]]

\* items is not empty: combine_ingredient_group skips an empty bucket
sum_unit_family(items, family) ==
    IF Len(items) = 1 THEN copy(items[1])
    ELSE
        \* the sums, the unit and the amount are computed once each: the bound
        \* names stand for their values
        CHOOSE summed \in
            {[amount |-> format_amount(final_amount),
              unit |-> output_unit,
              item |-> Get(items[1], "item", "")]
             : <<output_unit, final_amount>> \in
                 {<<unit, convert_from_base_unit(acc.total_base, unit, family)>>
                  : <<acc, unit>> \in
                      {<<sums, choose_best_output_unit(sums.total_base, family,
                                                       sums.original_units)>>
                       : sums \in {SumLoop(items, family, [n |-> 0, d |-> 1], <<>>)}}}}
            : TRUE

\* the by_family bucket a record is appended to
FamilyOf(item) ==
    IF parse_amount_to_float(item) = NoFloat THEN "no_amount"
    ELSE get_unit_family(Get(item, "unit", ""))

\* the members of items whose tag is t, in order
RECURSIVE Bucket(_, _, _, _)
Bucket(items, tags, t, i) ==
    IF i > Len(items) THEN <<>>
    ELSE (IF tags[i] = t THEN <<items[i]>> ELSE <<>>) \o Bucket(items, tags, t, i + 1)

\* the 'other' branch without the sub-groups: one row for the whole bucket
CombineOther_merged(group) ==
    IF group = <<>> THEN <<>>
    ELSE IF Len(group) = 1 THEN <<group[1]>>
    ELSE <<[amount |-> format_amount(
                           SumLoop(group, "other", [n |-> 0, d |-> 1], <<>>).total_base),
            unit |-> Get(group[1], "unit", ""),
            item |-> Get(group[1], "item", "")]>>

\* the 'other' branch: by_unit in insertion order, one row per lowercased unit
RECURSIVE CombineOther(_)
CombineOther(group) ==
    IF group = <<>> THEN <<>>
    ELSE
        LET u == lower(Get(Head(group), "unit", ""))
            Same(x) == lower(Get(x, "unit", "")) = u
            Differs(x) == ~Same(x)
            unit_group == SelectSeq(group, Same)
            total == SumLoop(unit_group, "other", [n |-> 0, d |-> 1], <<>>).total_base
            row == IF Len(unit_group) = 1 THEN unit_group[1]
                   ELSE [amount |-> format_amount(total),
                         unit |-> Get(unit_group[1], "unit", ""),
                         item |-> Get(unit_group[1], "item", "")]
        IN  <<row>> \o CombineOther(SelectSeq(group, Differs))

FAMILIES == <<"volume", "weight", "count", "other", "no_amount">>

\* the 'no_amount' branch emitting every record of the bucket
NoAmountRows_all(group) == group

\* the 'no_amount' branch writing a default amount into the first record
NoAmountRows_defaulted(group) == <<[group[1] EXCEPT !.amount = "1"]>>

\* the 'no_amount' branch: results.append(group[0])
NoAmountRows(group) == <<group[1]>>

RECURSIVE CombineFamilies(_, _, _)
CombineFamilies(items, tags, f) ==
    IF f > Len(FAMILIES) THEN <<>>
    ELSE
        LET group == Bucket(items, tags, FAMILIES[f], 1)
            rows == IF group = <<>> THEN <<>>
                    ELSE IF FAMILIES[f] = "no_amount" THEN NoAmountRows(group)
                    ELSE IF FAMILIES[f] = "other" THEN CombineOther(group)
                    ELSE <<sum_unit_family(group, FAMILIES[f])>>
        IN  rows \o CombineFamilies(items, tags, f + 1)

combine_ingredient_group(items) ==
    CombineFamilies(items, [i \in 1..Len(items) |-> FamilyOf(items[i])], 1)

\* code points of the model's alphabet, in ASCII order
AsciiChars == " ',-./0123456789:;ABCDEFGHIJKLMNOPQRSTUVWXYZ_abcdefghijklmnopqrstuvwxyz"

Ord == [c \in {Char(AsciiChars, i) : i \in 1..Len(AsciiChars)} |->
            CHOOSE i \in 1..Len(AsciiChars) : Char(AsciiChars, i) = c]

\* a < b for Python strings
RECURSIVE StrLess(_, _)
StrLess(a, b) ==
    IF b = "" THEN FALSE
    ELSE IF a = "" THEN TRUE
    ELSE IF Head(a) = Head(b) THEN StrLess(Tail(a), Tail(b))
    ELSE Ord[Head(a)] < Ord[Head(b)]

SortKey(x) == normalize_item_name(Get(x, "item", ""))

\* list.sort(key=...): stable, so a row goes after every row whose key is not
\* greater
RECURSIVE InsertSorted(_, _)
InsertSorted(sorted, x) ==
    IF sorted = <<>> THEN <<x>>
    ELSE IF StrLess(SortKey(x), SortKey(Head(sorted))) THEN <<x>> \o sorted
    ELSE <<Head(sorted)>> \o InsertSorted(Tail(sorted), x)

RECURSIVE SortByItem(_, _)
SortByItem(results, sorted) ==
    IF results = <<>> THEN sorted
    ELSE SortByItem(Tail(results), InsertSorted(sorted, Head(results)))

\* groups in insertion order: the group of the first record with a non-empty
\* key, then the groups of the rest
RECURSIVE CombineGroups(_, _, _)
CombineGroups(ings, keys, done) ==
    IF Len(done) = Len(ings) THEN <<>>
    ELSE
        LET i == Len(done) + 1
        IN  IF keys[i] = "" \/ \E j \in 1..(i - 1) : keys[j] = keys[i]
            THEN CombineGroups(ings, keys, Append(done, i))
            ELSE combine_ingredient_group(Bucket(ings, keys, keys[i], 1))
                    \o CombineGroups(ings, keys, Append(done, i))

\* aggregate_ingredients without the final sort
aggregate_ingredients_unsorted(all_ingredients) ==
    CombineGroups(all_ingredients,
                  [i \in 1..Len(all_ingredients) |->
                      normalize_item_name(Get(all_ingredients[i], "item", ""))],
                  <<>>)

aggregate_ingredients(all_ingredients) ==
    SortByItem(CombineGroups(all_ingredients,
                             [i \in 1..Len(all_ingredients) |->
                                 normalize_item_name(Get(all_ingredients[i], "item", ""))],
                             <<>>),
               <<>>)

\* the exception of the first row whose format_amount raised, "none" when
\* none did
RECURSIVE FirstRaised(_)
FirstRaised(results) ==
    IF results = <<>> THEN "none"
    ELSE IF Get(Head(results), "amount", "") \in DOMAIN RAISED
    THEN RAISED[Get(Head(results), "amount", "")]
    ELSE FirstRaised(Tail(results))

\* what a call of aggregate_ingredients ends with: the exception raised
\* while the groups are combined, in the order they are combined, else the
\* sorted list
aggregate_ingredients_call(all_ingredients) ==
    LET raised == FirstRaised(CombineGroups(all_ingredients,
                      [i \in 1..Len(all_ingredients) |->
                          normalize_item_name(Get(all_ingredients[i], "item", ""))],
                      <<>>))
    IN  IF raised = "none" THEN Ok(aggregate_ingredients(all_ingredients))
        ELSE Raise(raised)

(***************************************************************************)
(* Ingredient validator (lib/ingredient_validator.py).  A field of a       *)
(* record is a string or Python's None; an entry of the list that is no    *)
(* dict is a record with the one field "nondict".                          *)
(***************************************************************************)
None == "<None>"

\* str(v) of a field value
str(v) == IF v = None THEN "None" ELSE v

UNIT_WORDS ==
    {"cup", "cups", "tbsp", "tablespoon", "tablespoons",
     "tsp", "teaspoon", "teaspoons", "gram", "grams", "g",
     "oz", "ounce", "ounces", "lb", "pound", "pounds",
     "ml", "milliliter", "milliliters", "liter", "liters", "l",
     "kg", "kilogram", "kilograms"}

MALFORMED_UNITS ==
    {"half_cup", "quarter_cup", "third_cup", "three_quarters_cup",
     "half_teaspoon", "quarter_teaspoon",
     "half_tablespoon", "quarter_tablespoon",
     "two_tablespoons", "three_tablespoons"}

\* AMOUNT_WITH_UNIT_PATTERN.match(a): ^\d+(?:\.\d+)?\s*(g|kg|ml|l|oz|lb)$,
\* letters of either case
AMOUNT_WITH_UNIT_PATTERN(a) ==
    LET i == SkipDigits(a, 1)
        j == IF i <= Len(a) /\ Char(a, i) = "." /\ SkipDigits(a, i + 1) > i + 1
             THEN SkipDigits(a, i + 1)
             ELSE i
        k == SkipSpaces(a, j)
    IN  /\ i > 1
        /\ lower(DropFirst(a, k - 1)) \in {"g", "kg", "ml", "l", "oz", "lb"}

\* str.split(): the words between runs of whitespace
RECURSIVE split(_)
split(s) ==
    LET t == lstrip(s)
        e == SkipWord(t, 1)
    IN  IF t = "" THEN <<>>
        ELSE <<SubSeq(t, 1, e - 1)>> \o split(DropFirst(t, e - 1))

\* any(word in a.split() for word in UNIT_WORDS)
HasUnitWord(a) == \E i \in 1..Len(split(a)) : split(a)[i] \in UNIT_WORDS

\* ' '.join(parts)
RECURSIVE join(_)
join(parts) ==
    IF parts = <<>> THEN ""
    ELSE IF Len(parts) = 1 THEN parts[1]
    ELSE parts[1] \o " " \o join(Tail(parts))

\* is_malformed_ingredient without the test of the amount for unit words
is_malformed_ingredient_blind(ing) ==
    LET amount == strip(lower(str(Get(ing, "amount", ""))))
        unit == strip(lower(str(Get(ing, "unit", ""))))
        item == strip(str(Get(ing, "item", "")))
    IN  \/ item = ""
        \/ amount \in {"none", "null", ""}
        \/ AMOUNT_WITH_UNIT_PATTERN(amount)
        \/ unit \in {"none", "null"}
        \/ unit \in MALFORMED_UNITS

is_malformed_ingredient(ing) ==
    LET amount == strip(lower(str(Get(ing, "amount", ""))))
        unit == strip(lower(str(Get(ing, "unit", ""))))
        item == strip(str(Get(ing, "item", "")))
        amount_has_unit == HasUnitWord(amount)
    IN  IF item = "" THEN TRUE
        ELSE IF amount \in {"none", "null", ""} THEN TRUE
        ELSE IF AMOUNT_WITH_UNIT_PATTERN(amount) THEN TRUE
        ELSE IF unit \in {"none", "null", ""} /\ amount_has_unit THEN TRUE
        ELSE IF amount_has_unit THEN TRUE
        ELSE IF unit \in {"none", "null"} THEN TRUE
        ELSE IF unit \in MALFORMED_UNITS THEN TRUE
        ELSE FALSE

\* unit_is_bad taking every unit for a good one
unit_is_bad_never(unit_lower, amount_has_embedded_unit) == FALSE

\* unit_is_bad of repair_ingredient
unit_is_bad(unit_lower, amount_has_embedded_unit) ==
    \/ unit_lower \in {"none", "null", ""}
    \/ unit_lower \in MALFORMED_UNITS
    \/ amount_has_embedded_unit

\* the re-parsed record with the flag always False
carry_inferred_false(parsed, ing) ==
    [amount |-> parsed.amount, unit |-> parsed.unit, item |-> parsed.item,
     inferred |-> FALSE]

\* parsed['inferred'] = ing.get('inferred', False)
carry_inferred(parsed, ing) ==
    [amount |-> parsed.amount, unit |-> parsed.unit, item |-> parsed.item,
     inferred |-> Get(ing, "inferred", FALSE)]

\* repair_ingredient: a record, or the exception of parse_ingredient
repair_ingredient(ing) ==
    LET amount == strip(str(Get(ing, "amount", "")))
        unit == strip(str(Get(ing, "unit", "")))
        item == strip(str(Get(ing, "item", "")))
        amount_lower == lower(amount)
        amount_given == amount_lower \notin {"none", "null", ""}
        amount_has_embedded_unit ==
            /\ amount_given
            /\ (AMOUNT_WITH_UNIT_PATTERN(amount_lower) \/ HasUnitWord(amount_lower))
        unit_lower == lower(unit)
        parts ==
            (IF amount_given THEN <<amount>> ELSE <<>>)
            \o (IF ~unit_is_bad(unit_lower, amount_has_embedded_unit) THEN <<unit>>
                ELSE IF /\ ~amount_given
                        /\ unit_lower \notin {"none", "null", ""}
                        /\ unit_lower \notin MALFORMED_UNITS
                THEN <<unit>>
                ELSE <<>>)
            \o (IF item # "" THEN <<item>> ELSE <<>>)
        \* combined and parsed are computed once each: the bound names
        \* stand for their values
        results ==
            {IF combined = "" THEN Ok(ing)
             ELSE IF parsed.exc # "none" THEN parsed
             ELSE Ok(carry_inferred(parsed.val, ing))
             : <<combined, parsed>> \in
                 {<<text, parse_ingredient(text)>> : text \in
                     {strip(join(p)) : p \in {parts}}}}
    IN  CHOOSE result \in results : TRUE

\* isinstance(ing, dict)
IsDict(ing) == "nondict" \notin DOMAIN ing

\* the loop of validate_ingredients from entry i on, cleaned being the list
\* built so far; the exception of a repair ends the call
RECURSIVE ValidateLoop(_, _, _)
ValidateLoop(ingredients, i, cleaned) ==
    IF i > Len(ingredients) THEN Ok(cleaned)
    ELSE LET ing == ingredients[i]
         IN  IF ~IsDict(ing) THEN ValidateLoop(ingredients, i + 1, cleaned)
             ELSE IF is_malformed_ingredient(ing)
             THEN \* repaired is computed once: the bound name stands for
                  \* its value
                  CHOOSE result \in
                      {IF repaired.exc # "none" THEN repaired
                       ELSE ValidateLoop(ingredients, i + 1,
                                         Append(cleaned, repaired.val))
                       : repaired \in {repair_ingredient(ing)}} : TRUE
             ELSE ValidateLoop(ingredients, i + 1, Append(cleaned, ing))

validate_ingredients(ingredients) ==
    IF ingredients = <<>> THEN Ok(<<>>)
    ELSE ValidateLoop(ingredients, 1, <<>>)

(***************************************************************************)
(* Display formatting (format_ingredient of lib/ingredient_aggregator.py). *)
(***************************************************************************)
NON_PLURAL_UNITS == {"tsp", "tbsp", "oz", "lb", "g", "kg", "ml", "l"}

\* the unit of the display text, pluralizing the abbreviations too
display_unit_all(amount, unit) ==
    IF /\ IsFloatLiteral(strip(amount))
       /\ FloatLiteral(strip(amount)).n > FloatLiteral(strip(amount)).d
       /\ ~endswith(unit, "s")
    THEN unit \o "s"
    ELSE unit

\* the unit of the display text: float(amount) > 1 adds an "s"; ValueError
\* leaves the unit as it is
display_unit(amount, unit) ==
    IF /\ IsFloatLiteral(strip(amount))
       /\ FloatLiteral(strip(amount)).n > FloatLiteral(strip(amount)).d
       /\ ~endswith(unit, "s")
       /\ unit \notin NON_PLURAL_UNITS
    THEN unit \o "s"
    ELSE unit

format_ingredient(ing) ==
    LET amount == Get(ing, "amount", "")
        unit == Get(ing, "unit", "")
        item == Get(ing, "item", "")
    IN  IF amount = ""
        THEN IF unit \notin {"whole", ""}
             THEN strip(unit \o " " \o item)
             ELSE strip(item)
        ELSE join(<<amount>>
                  \o (IF unit \notin {"whole", ""}
                      THEN <<display_unit(amount, unit)>>
                      ELSE <<>>)
                  \o (IF item # "" THEN <<item>> ELSE <<>>))

(***************************************************************************)
(* Argument sets.                                                          *)
(***************************************************************************)
\* all concatenations of at most n members of T
RECURSIVE Strings(_, _)
Strings(T, n) ==
    IF n = 0 THEN {""}
    ELSE LET S == Strings(T, n - 1) IN S \cup {s \o t : s \in S, t \in T}

Numerals == {NatToStr(n) : n \in 0..MaxNum}

SlashForms == {"/", " /", "/ ", " / "}

AmountTokens == {"0", "1", "2", "8", "12", " ", "/", "-", ".", "one", "Two", "x"}

WholeParts == {"1", "2", "10"}

AmountArgs ==
    Strings(AmountTokens, MaxFree)
    \cup {n \o sl \o d : n \in Numerals, sl \in SlashForms, d \in Numerals}
    \cup {w \o sp \o n \o sl \o d :
            w \in WholeParts, sp \in {" ", "  "}, n \in Numerals,
            sl \in SlashForms, d \in Numerals}
    \cup {a \o sep \o b : a \in Numerals, sep \in {"-", ".", " - "}, b \in Numerals \cup {"50", "05"}}
    \cup {pad \o w : pad \in {"", " "}, w \in {"twelve", "TWELVE", "Seven", "thirteen", "zero"}}

IngredientTokens ==
    {"1", "2", "1/0", "1/2", "3-4", " ", ", ", ".", "'", "cup", "T", "t",
     "knob", "flour", "Salt", "some", "a pinch", " to taste", "somen"}

IngredientExamples ==
    {"1/0 cup flour", "2 1/0 cups sugar", "flour, 1/0 cup", "Chicken Breasts, 500 g",
     "2 T butter", "2 t salt", "Butter, 2 T", "1 cup salt .", "1' knob ginger",
     "salt and pepper to taste", "a pinch of salt", "somen noodles", "   ",
     "some Salt to taste", "Salt, a pinch, to taste",
     "Salt, 1.5 tsp", "Onion, 2 cups chopped", "Chicken, 1/2 lb", "Salt, a pinch",
     "Salt, A Pinch more", "Eggs, 2", "Flour, sifted", "1 cup salt ;", "Salt . to taste"}

IngredientArgs == Strings(IngredientTokens, MaxFree) \cup IngredientExamples

\* str.upper() and str.capitalize() write the unit arguments
UpperChar(c) ==
    IF c \in LowerSet
    THEN Char(UpperChars, CHOOSE i \in 1..26 : Char(LowerChars, i) = c)
    ELSE c

RECURSIVE upper(_)
upper(s) == IF s = "" THEN "" ELSE UpperChar(Head(s)) \o upper(Tail(s))

capitalize(s) == IF s = "" THEN "" ELSE UpperChar(Head(s)) \o lower(Tail(s))

UnitTokens == {"t", "T", "tbsp", "Cup", "s", " ", "widget", "Oz"}

UnitArgs ==
    DOMAIN UNIT_ABBREVIATIONS
    \cup {upper(u) : u \in DOMAIN UNIT_ABBREVIATIONS}
    \cup {capitalize(u) : u \in DOMAIN UNIT_ABBREVIATIONS}
    \cup Strings(UnitTokens, MaxFree)

Rec(a, u, i) == [amount |-> a, unit |-> u, item |-> i]

\* records of one item: plain, padded-decimal, range and wordy amounts over
\* volume and weight units
OneItemRecords ==
    {Rec("1", "cup", "flour"), Rec("0.5", "cup", "flour"), Rec("1", "ml", "flour"),
     Rec("1.50", "Cup", "flour"), Rec("3-4", "cup", "flour"),
     Rec("a few", "cup", "flour"), Rec("some", "", "Flour"),
     Rec("1", "lb", "flour"), Rec("1", "g", "flour")}

\* records of several items (one of them blank), with count units and units
\* of no family
ManyItemRecords ==
    {Rec("1", "cup", "flour"), Rec("a few", "cup", "flour"),
     Rec("2", "clove", "garlic"), Rec("1", "head", "garlic"),
     Rec("1", "stick", "garlic"), Rec("2", "Stick", "garlic"),
     Rec("3", "", "garlic"),
     Rec("2", "tbsp", "Butter"), Rec("0.25", "cup", "butter "),
     Rec("1", "cup", " ")}

\* all sequences over S of length at most n
RECURSIVE Lists(_, _)
Lists(S, n) ==
    IF n = 0 THEN {<<>>}
    ELSE LET L == Lists(S, n - 1) IN L \cup {Append(l, x) : l \in L, x \in S}

\* the lists are drawn from one set or from the other: groups of different
\* items meet only in the grouping and in the final sort
AggArgs == Lists(OneItemRecords, MaxRecords) \cup Lists(ManyItemRecords, MaxRecords)

\* records whose amounts float() reads as infinity or as not-a-number, with
\* records they are summed with
NonFiniteRecords ==
    {Rec("inf", "cup", "flour"), Rec("1", "cup", "flour"),
     Rec("nan", "stick", "sugar"), Rec("2", "stick", "sugar"),
     Rec("Infinity", "", "sugar")}

ReaggregateArgs == AggArgs \cup Lists(NonFiniteRecords, MaxRecords)

\* records that share items in different units, spellings and amounts, one
\* of them with an infinite amount, for the calls on a list and on a
\* reordering of it
ReorderRecords ==
    {Rec("2", "tbsp", "butter"), Rec("1", "cup", "Butter"),
     Rec("1", "cup", "flour"), Rec("a few", "cup", "flour"), Rec("some", "", "Flour"),
     Rec("1", "stick", "garlic"), Rec("1", "cup", " "), Rec("inf", "cup", "flour")}

\* seq with the entries at i and j exchanged
Swapped(seq, i, j) ==
    [k \in 1..Len(seq) |-> IF k = i THEN seq[j] ELSE IF k = j THEN seq[i] ELSE seq[k]]

\* a list and the same list with two entries exchanged (or none): every
\* reordering is a chain of such exchanges
ReorderArgs(l) ==
    {<<l, Swapped(l, i, j)>> : i \in 1..Len(l), j \in 1..Len(l)} \cup {<<l, l>>}

\* field values of the records handed to the validator
ValAmounts ==
    {"2", "1/2", "30 grams", "30 Grams", "20g", "1.5 KG", "2.5ml", "20 g", "2.g",
     "1/4 cup", "2 cupfuls", "cup", "3 l", "a few", "1/0 cup",
     "none", "None", "NULL", None, "", " "}

ValUnits ==
    {"cup", "Cup", "g", "whole", "pinch", "a pinch",
     "", "none", "None", "null", None, "half_cup", " Half_Cup "}

ValItems == {"sugar", "Sugar", "salt.", "cup", "2", "", " ", None}

\* records with a key missing
PartialRecords ==
    {[unit |-> "cup", item |-> "sugar"], [amount |-> "2", item |-> "sugar"],
     [amount |-> "2", unit |-> "cup"], [amount |-> "30 grams", item |-> "sugar"],
     [item |-> "sugar"], [amount |-> "2"]}

ValRecords ==
    {Rec(a, u, i) : a \in ValAmounts, u \in ValUnits, i \in ValItems} \cup PartialRecords

\* records whose amount holds an integer and a unit: "30 grams", "30g"
EmbeddedAmounts ==
    {n \o sep \o w : n \in {"2", "30"}, sep \in {" ", "  "}, w \in UNIT_WORDS}
    \cup {n \o capitalize(w) : n \in {"2 "}, w \in UNIT_WORDS}
    \cup {n \o u : n \in {"2", "30"}, u \in {"g", "kg", "ml", "l", "oz", "lb", "G", "Ml"}}

EmbeddedUnitRecords ==
    {Rec(a, u, i) : a \in EmbeddedAmounts,
                    u \in {"none", "None", "null", "", None},
                    i \in {"sugar", "salt"}}
    \cup {[amount |-> a, item |-> "sugar"] : a \in EmbeddedAmounts}

\* entries of the lists handed to validate_ingredients: well-formed and
\* malformed records, with and without the inferred flag, and entries that
\* are no dict
ValEntries ==
    {Rec("2", "cup", "sugar"), Rec("1/2", "Cup", "Sugar "),
     Rec("30 grams", "none", "sugar"), Rec("20g", "", "salt."),
     Rec("", "", "cup"), Rec("none", "pinch", "salt."),
     Rec("2", "half_cup", "Sugar"), Rec("2", None, "sugar"),
     Rec("1/0 cup", "", "sugar"), Rec("", "", ""),
     Rec("2", "", ""), Rec("2", "none", "sugar, 2 none"),
     [item |-> "sugar"],
     [amount |-> "2", unit |-> "cup", item |-> "sugar", inferred |-> TRUE],
     [amount |-> "2 cups", unit |-> "null", item |-> "sugar", inferred |-> TRUE],
     [nondict |-> "sugar"], [nondict |-> "None"]}

ValidateArgs ==
    {<<r>> : r \in ValRecords \cup EmbeddedUnitRecords} \cup Lists(ValEntries, MaxEntries)

\* entries handed to format_ingredient
FormatAmounts == {"", "1", "2", "10", "1.5", "0.5", "1.0", "1.01", "3-4", "1/2", "a few"}

FormatUnits ==
    {"", "whole", "cup", "cups", "Cup", "clove", "bunch", "glass", "knob",
     "a pinch", "to taste", "tsp", "tbsp", "oz", "lb", "g", "kg", "ml", "l"}

FormatItems == {"flour", "olive oil", ""}

FormatRecords ==
    {Rec(a, u, i) : a \in FormatAmounts, u \in FormatUnits, i \in FormatItems}
    \cup {[unit |-> "cup", item |-> "flour"], [amount |-> "2", item |-> "flour"],
          [amount |-> "2", unit |-> "cup"], [item |-> "flour"]}

\* texts whose parse gives the records that are formatted and parsed again
RoundTripTexts ==
    {a \o " " \o u \o i : a \in {"1", "2", "1/2", "1 1/2", "3-4", "10"},
                          u \in {"", "cup ", "cups ", "tbsp ", "T ", "g ", "lb ",
                                 "knob ", "pinch ", "dash "},
                          i \in {"flour", "eggs", "olive oil"}}
    \cup {i \o ", " \o a \o " " \o u : a \in {"1", "2"},
                                      u \in {"bunch", "cup", "g", "sprigs", "head"},
                                      i \in {"Parsley", "flour"}}
    \cup {u \o " " \o i : u \in {"a pinch", "a dash", "some", "a few", "as needed"},
                          i \in {"salt", "olive oil"}}
    \cup {"salt to taste", "salt and pepper to taste", "flour", "2 eggs"}

\* the records parse_ingredient returns for them with an item
CanonicalRecords ==
    {parse_ingredient(t).val :
        t \in {x \in RoundTripTexts :
                  /\ parse_ingredient(x).exc = "none"
                  /\ parse_ingredient(x).val.item # ""}}

(***************************************************************************)
(* SpecUnit: one call of normalize_unit.                                   *)
(***************************************************************************)
InitUnit == pc = "call" /\ arg \in UnitArgs /\ ret = Ok("")

NormalizeUnit ==
    pc = "call" /\ pc' = "done" /\ ret' = Ok(normalize_unit(arg)) /\ arg' = arg

SpecUnit == InitUnit /\ [][NormalizeUnit]_vars

(***************************************************************************)
(* SpecAmount: one call of parse_amount.                                   *)
(***************************************************************************)
InitAmount == pc = "call" /\ arg \in AmountArgs /\ ret = Ok("")

ParseAmount == pc = "call" /\ pc' = "done" /\ ret' = parse_amount(arg) /\ arg' = arg

SpecAmount == InitAmount /\ [][ParseAmount]_vars

(***************************************************************************)
(* SpecIngredient: one call of parse_ingredient.                           *)
(***************************************************************************)
InitIngredient == pc = "call" /\ arg \in IngredientArgs /\ ret = Ok("")

ParseIngredient ==
    pc = "call" /\ pc' = "done" /\ ret' = parse_ingredient(arg) /\ arg' = arg

SpecIngredient == InitIngredient /\ [][ParseIngredient]_vars

(***************************************************************************)
(* SpecAggregate: one call of aggregate_ingredients.                       *)
(***************************************************************************)
InitAggregate == pc = "call" /\ arg \in AggArgs /\ ret = Ok("")

Aggregate ==
    pc = "call" /\ pc' = "done" /\ ret' = aggregate_ingredients_call(arg) /\ arg' = arg

SpecAggregate == InitAggregate /\ [][Aggregate]_vars

(***************************************************************************)
(* SpecReorder: aggregate_ingredients called on a list and on a            *)
(* reordering of it.                                                       *)
(***************************************************************************)
InitReorder ==
    /\ pc = "call"
    /\ \E l \in Lists(ReorderRecords, MaxRecords) : arg \in ReorderArgs(l)
    /\ ret = Ok("")

AggregateEach ==
    /\ pc = "call" /\ pc' = "done" /\ arg' = arg
    /\ ret' = <<aggregate_ingredients_call(arg[1]), aggregate_ingredients_call(arg[2])>>

SpecReorder == InitReorder /\ [][AggregateEach]_vars

(***************************************************************************)
(* SpecReaggregate: aggregate_ingredients called on a list and then on the *)
(* list it returned.                                                       *)
(***************************************************************************)
InitReaggregate == pc = "call" /\ arg \in ReaggregateArgs /\ ret = Ok("")

\* the second call is made when the first has returned
AggregateAgain ==
    /\ pc = "call" /\ pc' = "done" /\ arg' = arg
    /\ \E first \in {aggregate_ingredients_call(arg)} :
          ret' = IF first.exc # "none" THEN <<first>>
                 ELSE <<first, aggregate_ingredients_call(first.val)>>

SpecReaggregate == InitReaggregate /\ [][AggregateAgain]_vars

(***************************************************************************)
(* SpecPipeline: calls of parse_ingredient, validate_ingredients and       *)
(* aggregate_ingredients one after the other on the dicts and lists the    *)
(* caller holds.  arg is the caller's memory: objs, the dicts by address,  *)
(* and lists, the lists of addresses; ret is the log of the calls.  A      *)
(* called function sees each dict with its address in the field "id", so   *)
(* that a row it returns is either a dict the caller already holds, and    *)
(* what the call did to it is written where it is stored, or a new one.    *)
(***************************************************************************)
PipelineRecords ==
    {Rec("1", "cup", "flour"), Rec("0.5", "cup", "Flour"), Rec("some", "", "flour"),
     Rec("", "", ""), Rec("2", "none", "sugar")}

PipelineTexts == {"2 cups flour"}

Stored(objs, a) == ("id" :> a) @@ objs[a]

\* the list at address l as the called function reads it
ListAt(heap, l) ==
    [i \in 1..Len(heap.lists[l]) |-> Stored(heap.objs, heap.lists[l][i])]

\* the fields of the rows, without the addresses
Fields(rows) == [i \in 1..Len(rows) |-> copy(rows[i])]

\* the dicts after the call and the addresses of the returned rows
RECURSIVE Store(_, _, _)
Store(objs, rows, addrs) ==
    IF rows = <<>> THEN [objs |-> objs, addrs |-> addrs]
    ELSE IF "id" \in DOMAIN Head(rows)
    THEN Store([objs EXCEPT ![Head(rows).id] = copy(Head(rows))], Tail(rows),
               Append(addrs, Head(rows).id))
    ELSE Store(Append(objs, Head(rows)), Tail(rows), Append(addrs, Len(objs) + 1))

\* the memory after a call on a list: the returned list is a new list
Returned(heap, out) ==
    IF out.exc # "none" THEN heap
    ELSE [objs |-> Store(heap.objs, out.val, <<>>).objs,
          lists |-> Append(heap.lists, Store(heap.objs, out.val, <<>>).addrs)]

Logged(fn, input, out) ==
    [fn |-> fn, input |-> input,
     result |-> IF out.exc # "none" THEN out ELSE Ok(Fields(out.val))]

InitPipeline ==
    /\ pc = "call"
    /\ \E objs \in Lists(PipelineRecords, MaxObjects) :
          arg = [objs |-> objs, lists |-> <<[i \in 1..Len(objs) |-> i]>>]
    /\ ret = <<>>

\* the caller keeps the parsed dict in a list of its own
ParseCall ==
    /\ pc = "call"
    /\ \E text \in PipelineTexts : \E parsed \in {parse_ingredient(text)} :
          /\ ret' = Append(ret, [fn |-> "parse_ingredient", input |-> text,
                                 result |-> parsed])
          /\ arg' = IF parsed.exc # "none" THEN arg
                    ELSE [objs |-> Append(arg.objs, parsed.val),
                          lists |-> Append(arg.lists, <<Len(arg.objs) + 1>>)]
    /\ pc' = IF Len(ret) + 1 = MaxCalls THEN "done" ELSE "call"

ValidateCall ==
    /\ pc = "call"
    /\ \E l \in 1..Len(arg.lists) : \E out \in {validate_ingredients(ListAt(arg, l))} :
          /\ ret' = Append(ret, Logged("validate_ingredients",
                                       Fields(ListAt(arg, l)), out))
          /\ arg' = Returned(arg, out)
    /\ pc' = IF Len(ret) + 1 = MaxCalls THEN "done" ELSE "call"

AggregateCall ==
    /\ pc = "call"
    /\ \E l \in 1..Len(arg.lists) :
          \E out \in {aggregate_ingredients_call(ListAt(arg, l))} :
              /\ ret' = Append(ret, Logged("aggregate_ingredients",
                                           Fields(ListAt(arg, l)), out))
              /\ arg' = Returned(arg, out)
    /\ pc' = IF Len(ret) + 1 = MaxCalls THEN "done" ELSE "call"

NextPipeline == ParseCall \/ ValidateCall \/ AggregateCall

SpecPipeline == InitPipeline /\ [][NextPipeline]_vars

(***************************************************************************)
(* SpecMalformed: one call of is_malformed_ingredient.                     *)
(***************************************************************************)
InitMalformed == pc = "call" /\ arg \in ValRecords /\ ret = Ok("")

IsMalformed ==
    pc = "call" /\ pc' = "done" /\ ret' = Ok(is_malformed_ingredient(arg)) /\ arg' = arg

SpecMalformed == InitMalformed /\ [][IsMalformed]_vars

(***************************************************************************)
(* SpecValidate: one call of validate_ingredients.                         *)
(***************************************************************************)
InitValidate == pc = "call" /\ arg \in ValidateArgs /\ ret = Ok("")

Validate ==
    pc = "call" /\ pc' = "done" /\ ret' = validate_ingredients(arg) /\ arg' = arg

SpecValidate == InitValidate /\ [][Validate]_vars

(***************************************************************************)
(* SpecRevalidate: validate_ingredients called on a list and then on the   *)
(* list it returned.                                                       *)
(***************************************************************************)
InitRevalidate == pc = "call" /\ arg \in ValidateArgs /\ ret = Ok("")

ValidateAgain ==
    /\ pc = "call" /\ pc' = "done" /\ arg' = arg
    /\ \E first \in {validate_ingredients(arg)} :
          ret' = IF first.exc # "none" THEN <<first>>
                 ELSE <<first, validate_ingredients(first.val)>>

SpecRevalidate == InitRevalidate /\ [][ValidateAgain]_vars

(***************************************************************************)
(* SpecFormat: one call of format_ingredient.                              *)
(***************************************************************************)
InitFormat == pc = "call" /\ arg \in FormatRecords /\ ret = Ok("")

Format ==
    pc = "call" /\ pc' = "done" /\ ret' = Ok(format_ingredient(arg)) /\ arg' = arg

SpecFormat == InitFormat /\ [][Format]_vars

(***************************************************************************)
(* SpecRoundTrip: a record of parse_ingredient is formatted by              *)
(* format_ingredient and the text is parsed again.                         *)
(***************************************************************************)
InitRoundTrip == pc = "call" /\ arg \in CanonicalRecords /\ ret = Ok("")

RoundTrip ==
    /\ pc = "call"
    /\ pc' = "done"
    /\ \E text \in {format_ingredient(arg)} : ret' = parse_ingredient(text)
    /\ arg' = arg

SpecRoundTrip == InitRoundTrip /\ [][RoundTrip]_vars

(***************************************************************************)
(* Vocabulary of the properties.                                           *)
(***************************************************************************)
\* a normalized amount: digits, or digits, a point and one or two digits of
\* which the last is not 0
IsNormalizedNumber(r) ==
    \/ AllDigits(r)
    \/ /\ TwoNumbers(r, ".")
       /\ Len(r) - SkipDigits(r, 1) \in {1, 2}
       /\ Char(r, Len(r)) # "0"

\* the hundredths a normalized amount counts
HundredthsOf(r) ==
    LET i == SkipDigits(r, 1)
        frac == DropFirst(r, i)
    IN  IF i > Len(r) THEN 100 * ToNat(r)
        ELSE 100 * ToNat(SubSeq(r, 1, i - 1))
                + (IF Len(frac) = 1 THEN 10 * ToNat(frac) ELSE ToNat(frac))

\* r is the normalized rendering of num / den: the bare integer when the value
\* is integral, otherwise a normalized amount within half a hundredth of it
RendersValue(r, num, den) ==
    /\ IsNormalizedNumber(r)
    /\ num % den = 0 => r = NatToStr(num \div den)
    /\ LET h == HundredthsOf(r) - 100 * (num \div den)
           f == 100 * (num % den)
       IN  2 * h * den - 2 * f <= den /\ 2 * f - 2 * h * den <= den

WordNumberList ==
    <<"one", "two", "three", "four", "five", "six", "seven", "eight", "nine",
      "ten", "eleven", "twelve">>

\* the accepted shapes of an amount, read off the stripped text with the
\* whitespace around a slash between digits removed
AcceptedAmountShape(s) ==
    LET t == strip(s)
        n == NormalizeSlashes(t)
    IN  \/ \E i \in 1..Len(WordNumberList) : lower(t) = WordNumberList[i]
        \/ TwoNumbers(t, "-")
        \/ TwoNumbers(t, ".")
        \/ MixedMatch(n)
        \/ TwoNumbers(n, "/")
        \/ AllDigits(n)

(***************************************************************************)
(* C1: parse_ingredient is total: for every string, the zero-denominator   *)
(* quantities included, it returns a record with amount, unit and item and *)
(* never raises.                                                           *)
(***************************************************************************)
C1_ParseIngredientTotal ==
    pc = "done" =>
        /\ ret.exc = "none"
        /\ DOMAIN ret.val = {"amount", "unit", "item"}

(***************************************************************************)
(* C2: parse_amount never raises, and returns "1" for every text that is   *)
(* empty or of none of the accepted shapes.                                *)
(***************************************************************************)
C2_ParseAmountNeverRaises ==
    pc = "done" =>
        /\ ret.exc = "none"
        /\ ~AcceptedAmountShape(arg) => ret.val = "1"

(***************************************************************************)
(* C3: parse_amount maps a word-number to its digits, keeps an integer     *)
(* range, a decimal and a bare integer verbatim, and renders a mixed       *)
(* number W N/D and a fraction N/D (D not 0) as the normalized decimal of  *)
(* its value, whatever whitespace surrounds the slash.                     *)
(***************************************************************************)
C3_AmountNormalization ==
    pc = "done" =>
        /\ \A i \in 1..Len(WordNumberList) :
              lower(strip(arg)) = WordNumberList[i] => ret = Ok(NatToStr(i))
        /\ \A a \in Numerals, b \in Numerals :
              /\ arg = a \o "-" \o b => ret = Ok(arg)
              /\ arg = a \o "." \o b => ret = Ok(arg)
              /\ arg = a => ret = Ok(arg)
              /\ \A sl \in SlashForms :
                    /\ (arg = a \o sl \o b /\ ToNat(b) # 0)
                          => /\ ret.exc = "none"
                             /\ RendersValue(ret.val, ToNat(a), ToNat(b))
                    /\ \A w \in WholeParts, sp \in {" ", "  "} :
                          (arg = w \o sp \o a \o sl \o b /\ ToNat(b) # 0)
                              => /\ ret.exc = "none"
                                 /\ RendersValue(ret.val,
                                                 ToNat(w) * ToNat(b) + ToNat(a),
                                                 ToNat(b))

C3_Witness == pc = "done" /\ arg = "2 1 / 3" /\ ret = Ok("2.33")

(***************************************************************************)
(* C4: normalize_unit maps every surface form of the table to its code     *)
(* whatever the letter case, except that exactly "T" is tbsp and exactly   *)
(* "t" is tsp; any other string comes back lowercased; the empty string    *)
(* comes back empty; nothing raises.                                       *)
(***************************************************************************)
C4_NormalizeUnit ==
    pc = "done" =>
        /\ ret.exc = "none"
        /\ arg = "T" => ret.val = "tbsp"
        /\ arg = "t" => ret.val = "tsp"
        /\ arg = "" => ret.val = ""
        /\ (arg # "T" /\ lower(arg) \in DOMAIN UNIT_ABBREVIATIONS)
              => ret.val = UNIT_ABBREVIATIONS[lower(arg)]
        /\ (arg # "T" /\ lower(arg) \notin DOMAIN UNIT_ABBREVIATIONS)
              => ret.val = lower(arg)

C4_Witness == pc = "done" /\ arg = "T" /\ ret = Ok("tbsp")

(***************************************************************************)
(* Vocabulary of the aggregation properties, read off the records          *)
(* themselves: the item key, what the amount is, the family of the unit    *)
(* and the factor to the base unit.                                        *)
(***************************************************************************)
ItemKey(x) == strip(lower(x.item))

ArgKeys == {ItemKey(arg[i]) : i \in 1..Len(arg)} \ {""}

IsFloatAmount(x) == IsFloatLiteral(strip(x.amount))

IsRangeAmount(x) == RangeHyphen(strip(x.amount)) > 0

IsNumericAmount(x) == IsFloatAmount(x) \/ IsRangeAmount(x)

\* the number an amount stands for, a range standing for its midpoint
AmountValue(x) ==
    LET a == strip(x.amount)
        h == RangeHyphen(a)
    IN  IF h = 0 THEN FloatLiteral(a)
        ELSE LET lo == PlainNumber(rstrip(SubSeq(a, 1, h - 1)))
                 hi == PlainNumber(lstrip(DropFirst(a, h)))
             IN  Rat(lo.n * hi.d + hi.n * lo.d, 2 * lo.d * hi.d)

UnitFamily(u) ==
    IF lower(u) \in {"tsp", "tbsp", "cup", "ml", "l"} THEN "volume"
    ELSE IF lower(u) \in {"oz", "lb", "g", "kg"} THEN "weight"
    ELSE IF lower(u) \in {"clove", "cloves", "slice", "slices", "piece", "pieces",
                          "bunch", "bunches", "head", "heads", "can", "cans",
                          "package", "packages", "sprig", "sprigs", "whole"}
    THEN "count"
    ELSE "other"

\* teaspoons per volume unit, ounces per weight unit
BaseFactor(u) ==
    IF lower(u) \in DOMAIN VOLUME_UNITS THEN VOLUME_UNITS[lower(u)]
    ELSE WEIGHT_UNITS[lower(u)]

\* the records of seq of item k and family fam that have a numeric amount
Members(seq, k, fam) ==
    SelectSeq(seq, LAMBDA x : /\ ItemKey(x) = k
                              /\ IsNumericAmount(x)
                              /\ UnitFamily(x.unit) = fam)

\* the plain numbers among them
PlainMembers(seq, k, fam) ==
    SelectSeq(seq, LAMBDA x : /\ ItemKey(x) = k
                              /\ IsFloatAmount(x)
                              /\ UnitFamily(x.unit) = fam)

\* sum of amount times base factor
RECURSIVE BaseTotal(_)
BaseTotal(G) ==
    IF G = <<>> THEN [n |-> 0, d |-> 1]
    ELSE RatAdd(RatMul(AmountValue(Head(G)), BaseFactor(Head(G).unit)),
                BaseTotal(Tail(G)))

\* sum of the amounts
RECURSIVE PlainTotal(_)
PlainTotal(G) ==
    IF G = <<>> THEN [n |-> 0, d |-> 1]
    ELSE RatAdd(AmountValue(Head(G)), PlainTotal(Tail(G)))

\* the amount r renders the base total of G in the unit u
RendersTotal(r, G, u) ==
    LET x == RatDiv(BaseTotal(G), BaseFactor(u))
    IN  RendersValue(r, x.n, x.d)

ConvertibleFamilies == {"volume", "weight"}

(***************************************************************************)
(* C5: the output of aggregate_ingredients is sorted ascending by          *)
(* normalized item name: no entry's key is less than its predecessor's.    *)
(***************************************************************************)
C5_SortedByItem ==
    pc = "done" =>
        \A i \in 1..(Len(ret.val) - 1) :
            ~StrLess(ItemKey(ret.val[i + 1]), ItemKey(ret.val[i]))

C5_Witness ==
    /\ pc = "done"
    /\ Len(arg) = 3
    /\ StrLess(ItemKey(arg[2]), ItemKey(arg[1]))
    /\ StrLess(ItemKey(arg[3]), ItemKey(arg[2]))
    /\ ItemKey(arg[3]) # ""
    /\ Len(ret.val) = 3

C7_OutputUnit ==
    pc = "done" =>
        \A k \in ArgKeys, fam \in ConvertibleFamilies :
            LET G == Members(arg, k, fam)
                R == Members(ret.val, k, fam)
                Occurrences(i) ==
                    Cardinality({j \in 1..Len(G) : lower(G[j].unit) = lower(G[i].unit)})
            IN  Len(G) >= 2 =>
                    /\ Len(R) = 1
                    /\ \E i \in 1..Len(G) :
                          /\ R[1].unit = lower(G[i].unit)
                          /\ \A j \in 1..Len(G) : Occurrences(j) <= Occurrences(i)
                          /\ \A j \in 1..(i - 1) : Occurrences(j) < Occurrences(i)

C7_Witness ==
    /\ pc = "done"
    /\ arg = <<Rec("2", "tbsp", "Butter"), Rec("0.25", "cup", "butter ")>>
    /\ ret.val = <<Rec("6", "tbsp", "Butter")>>

(***************************************************************************)
(* C8: a record whose amount is a range goes to the no_amount   *)
(* bucket (so the first such record of an item is passed through) and      *)
(* contributes to no total: a merged entry renders the sum of the plain    *)
(* numbers alone.                                                          *)
(***************************************************************************)
C8_RangeNeverSummed ==
    pc = "done" =>
        \A k \in ArgKeys :
            /\ \A i \in 1..Len(arg) :
                  (/\ ItemKey(arg[i]) = k
                   /\ IsRangeAmount(arg[i])
                   /\ \A j \in 1..(i - 1) : ItemKey(arg[j]) = k => IsFloatAmount(arg[j]))
                      => \E r \in 1..Len(ret.val) : ret.val[r] = arg[i]
            /\ \A fam \in ConvertibleFamilies :
                  LET P == PlainMembers(arg, k, fam)
                      R == PlainMembers(ret.val, k, fam)
                  IN  Len(P) >= 2 => /\ Len(R) = 1
                                     /\ RendersTotal(R[1].amount, P, R[1].unit)

(***************************************************************************)
(* C9 as claimed: every record with a non-empty item and an amount that is *)
(* no number appears in the output unchanged.                              *)
(***************************************************************************)
C9_Original ==
    pc = "done" =>
        \A i \in 1..Len(arg) :
            (ItemKey(arg[i]) # "" /\ ~IsNumericAmount(arg[i]))
                => \E r \in 1..Len(ret.val) : ret.val[r] = arg[i]

(***************************************************************************)
(* C9 as amended: of the records of one item whose amount is no number,    *)
(* the first appears in the output unchanged and the later ones are not    *)
(* emitted; none is summed: the numeric entries are those of the input     *)
(* without these records.                                                  *)
(***************************************************************************)
C9_FirstNoAmountPassthrough ==
    pc = "done" =>
        /\ \A k \in ArgKeys :
              LET N == SelectSeq(arg, LAMBDA x : ItemKey(x) = k /\ ~IsNumericAmount(x))
                  R == SelectSeq(ret.val, LAMBDA x : ItemKey(x) = k /\ ~IsNumericAmount(x))
              IN  R = IF N = <<>> THEN <<>> ELSE <<N[1]>>
        /\ SelectSeq(ret.val, IsNumericAmount)
              = aggregate_ingredients(SelectSeq(arg, IsNumericAmount))

C9_Witness ==
    /\ pc = "done"
    /\ arg = <<Rec("1", "cup", "flour"), Rec("a few", "cup", "flour"),
               Rec("some", "", "Flour")>>
    /\ ret.val = <<Rec("1", "cup", "flour"), Rec("a few", "cup", "flour")>>

(***************************************************************************)
(* C10: within one item the count-family records are added per unit only:  *)
(* each distinct unit (case-insensitive) has exactly one output row, whose *)
(* amount is the sum of the records of that unit.                          *)
(***************************************************************************)
C10_CountPerUnit ==
    pc = "done" =>
        \A k \in ArgKeys :
            LET G == Members(arg, k, "count")
            IN  \A i \in 1..Len(G) :
                    LET Gu == SelectSeq(G, LAMBDA x : lower(x.unit) = lower(G[i].unit))
                        Ru == SelectSeq(Members(ret.val, k, "count"),
                                        LAMBDA x : lower(x.unit) = lower(G[i].unit))
                    IN  /\ Len(Ru) = 1
                        /\ AmountValue(Ru[1]) = PlainTotal(Gu)

(***************************************************************************)
(* C11: within one item the numeric records of no unit family are added    *)
(* per unit only, units compared case-insensitively: each distinct unit    *)
(* has exactly one output row, whose amount is the sum of the records of   *)
(* that unit.                                                              *)
(***************************************************************************)
C11_OtherPerUnit ==
    pc = "done" =>
        \A k \in ArgKeys :
            LET G == Members(arg, k, "other")
            IN  \A i \in 1..Len(G) :
                    LET Gu == SelectSeq(G, LAMBDA x : lower(x.unit) = lower(G[i].unit))
                        Ru == SelectSeq(Members(ret.val, k, "other"),
                                        LAMBDA x : lower(x.unit) = lower(G[i].unit))
                    IN  /\ Len(Ru) = 1
                        /\ AmountValue(Ru[1]) = PlainTotal(Gu)
                        /\ Len(Gu) >= 2 => IsNormalizedNumber(Ru[1].amount)

C11_Witness ==
    /\ pc = "done"
    /\ arg = <<Rec("1", "stick", "garlic"), Rec("3", "", "garlic"),
               Rec("2", "Stick", "garlic")>>
    /\ ret.val = <<Rec("3", "stick", "garlic"), Rec("3", "", "garlic")>>

(***************************************************************************)
(* Vocabulary of the validator properties: the text of a field (a missing  *)
(* key reads as empty, None as the text "None"), lowercased and trimmed,   *)
(* and the six conditions of a malformed record stated on that text.       *)
(***************************************************************************)
FieldText(r, k) == IF k \notin DOMAIN r THEN "" ELSE IF r[k] = None THEN "None" ELSE r[k]

Folded(r, k) == strip(lower(FieldText(r, k)))

\* w stands in a as a word of its own, whitespace or an end on either side
IsTokenOf(w, a) ==
    \E i \in 1..(Len(a) - Len(w) + 1) :
        /\ SubSeq(a, i, i + Len(w) - 1) = w
        /\ (i = 1 \/ Char(a, i - 1) = " ")
        /\ (i + Len(w) - 1 = Len(a) \/ Char(a, i + Len(w)) = " ")

ConcatenatedUnits == {"g", "kg", "ml", "l", "oz", "lb"}

\* a is an integer or a decimal followed by one of the six short units
IsNumberWithUnit(a) ==
    \E u \in ConcatenatedUnits :
        /\ endswith(a, u)
        /\ LET p == rstrip(SubSeq(a, 1, Len(a) - Len(u)))
           IN  AllDigits(p) \/ TwoNumbers(p, ".")

(***************************************************************************)
(* C12: is_malformed_ingredient is true exactly when the item is empty, or *)
(* the amount is "none", "null" or empty, or the amount holds a unit word  *)
(* as a whitespace-delimited token, or the amount is a number followed by  *)
(* g, kg, ml, l, oz or lb, or the unit is "none" or "null", or the unit is *)
(* a compound token; fields compared lowercased and trimmed.               *)
(***************************************************************************)
C12_MalformedExactly ==
    pc = "done" =>
        (ret.val <=>
            \/ Folded(arg, "item") = ""
            \/ Folded(arg, "amount") \in {"none", "null", ""}
            \/ \E w \in UNIT_WORDS : IsTokenOf(w, Folded(arg, "amount"))
            \/ IsNumberWithUnit(Folded(arg, "amount"))
            \/ Folded(arg, "unit") \in {"none", "null"}
            \/ Folded(arg, "unit") \in MALFORMED_UNITS)

C12_Witness ==
    /\ pc = "done"
    /\ arg = Rec("1/4 cup", "g", "sugar")
    /\ ret.val = TRUE


\* the place in the output of the record made from entry i of the input
DictRank(i) == Cardinality({j \in 1..i : IsDict(arg[j])})

\* the amount of r is an integer followed by a unit word after whitespace,
\* or by one of the six short units directly
EmbeddedInteger(r) == SubSeq(Folded(r, "amount"), 1, SkipDigits(Folded(r, "amount"), 1) - 1)

EmbeddedWord(r) ==
    lstrip(DropFirst(Folded(r, "amount"), SkipDigits(Folded(r, "amount"), 1) - 1))

HasEmbeddedUnit(r) ==
    LET a == Folded(r, "amount")
        rest == DropFirst(a, SkipDigits(a, 1) - 1)
    IN  /\ EmbeddedInteger(r) # ""
        /\ \/ rest # EmbeddedWord(r) /\ EmbeddedWord(r) \in UNIT_WORDS
           \/ rest \in ConcatenatedUnits

\* a lowercase word that is no unit and begins with no informal phrase
IsPlainWord(i) ==
    /\ i # ""
    /\ \A k \in 1..Len(i) : Char(i, k) \in LowerSet
    /\ i \notin DOMAIN UNIT_ABBREVIATIONS
    /\ i \notin KNOWN_UNITS
    /\ \A k \in 1..Len(INFORMAL_UNITS) : ~startswith(i, INFORMAL_UNITS[k])

(***************************************************************************)
(* C13: a record whose amount is an integer with an embedded unit word,    *)
(* whose unit is "none", "null" or empty and whose item is a plain word is *)
(* repaired by validate_ingredients into amount = the integer, unit = the  *)
(* normalized unit word, item = the same word; alone in the list it never  *)
(* makes the call raise.                                                   *)
(***************************************************************************)
C13_RepairSplitsEmbeddedUnit ==
    pc = "done" =>
        \A i \in 1..Len(arg) :
            (/\ IsDict(arg[i])
             /\ HasEmbeddedUnit(arg[i])
             /\ Folded(arg[i], "unit") \in {"none", "null", ""}
             /\ "item" \in DOMAIN arg[i]
             /\ arg[i].item # None
             /\ IsPlainWord(arg[i].item))
            => /\ Len(arg) = 1 => ret.exc = "none"
               /\ ret.exc = "none" =>
                     /\ ret.val[DictRank(i)].amount = EmbeddedInteger(arg[i])
                     /\ ret.val[DictRank(i)].unit = normalize_unit(EmbeddedWord(arg[i]))
                     /\ ret.val[DictRank(i)].item = arg[i].item

C13_Witness ==
    /\ pc = "done"
    /\ arg = <<Rec("30 grams", "none", "sugar")>>
    /\ ret = Ok(<<[amount |-> "30", unit |-> "g", item |-> "sugar", inferred |-> FALSE]>>)


\* the six conditions of a malformed record
MalformedAsSpecified(r) ==
    \/ Folded(r, "item") = ""
    \/ Folded(r, "amount") \in {"none", "null", ""}
    \/ \E w \in UNIT_WORDS : IsTokenOf(w, Folded(r, "amount"))
    \/ IsNumberWithUnit(Folded(r, "amount"))
    \/ Folded(r, "unit") \in {"none", "null"}
    \/ Folded(r, "unit") \in MALFORMED_UNITS

(***************************************************************************)
(* C14: validate_ingredients returns, for every list, exactly one record   *)
(* per dict entry, in the order of the entries, entries that are no dict   *)
(* being dropped, and a record that is not malformed comes back with the   *)
(* same fields.                                                            *)
(***************************************************************************)
C14_OnePerDictInOrder ==
    pc = "done" =>
        /\ ret.exc = "none"
        /\ Len(ret.val) = DictRank(Len(arg))
        /\ \A i \in 1..Len(arg) :
              (IsDict(arg[i]) /\ ~MalformedAsSpecified(arg[i]))
                  => ret.val[DictRank(i)] = arg[i]

(***************************************************************************)
(* C15: for every malformed record whose item is not empty, the record     *)
(* that validate_ingredients returns for it has an item that is not empty. *)
(***************************************************************************)
C15_RepairKeepsItem ==
    (pc = "done" /\ ret.exc = "none") =>
        \A i \in 1..Len(arg) :
            (/\ IsDict(arg[i])
             /\ MalformedAsSpecified(arg[i])
             /\ Folded(arg[i], "item") # "")
            => Get(ret.val[DictRank(i)], "item", "") # ""


(***************************************************************************)
(* C17: format_ingredient renders an entry with an empty amount as         *)
(* "<unit> <item>", or as the item alone when the unit is "whole" or       *)
(* empty; otherwise as "<amount> <unit> <item>", the unit left out when it *)
(* is "whole" or empty and carrying an added "s" exactly when the amount   *)
(* is a number above 1, the unit does not end in "s" and is none of tsp,   *)
(* tbsp, oz, lb, g, kg, ml, l.  An empty item leaves no trailing space.    *)
(***************************************************************************)
C17_DisplayFormat ==
    pc = "done" =>
        LET amount == FieldText(arg, "amount")
            unit == FieldText(arg, "unit")
            item == FieldText(arg, "item")
            shown == unit \notin {"whole", ""}
            above_one == /\ IsFloatLiteral(amount)
                         /\ FloatLiteral(amount).n > FloatLiteral(amount).d
            plural == /\ above_one
                      /\ Char(unit, Len(unit)) # "s"
                      /\ unit \notin {"tsp", "tbsp", "oz", "lb", "g", "kg", "ml", "l"}
            tail == IF item = "" THEN "" ELSE " " \o item
        IN  ret.val =
                IF amount = ""
                THEN IF shown THEN unit \o tail ELSE item
                ELSE IF ~shown THEN amount \o tail
                ELSE IF plural THEN amount \o " " \o unit \o "s" \o tail
                ELSE amount \o " " \o unit \o tail

C17_Witness ==
    /\ pc = "done"
    /\ arg = Rec("2", "cup", "flour")
    /\ ret.val = "2 cups flour"


\* the same numeric amount: equal numbers, or the same text when the amount
\* is no number
SameAmount(x, y) ==
    IF IsNumericAmount(x) /\ IsNumericAmount(y)
    THEN AmountValue(x) = AmountValue(y)
    ELSE x.amount = y.amount

(***************************************************************************)
(* C16: for every record r that parse_ingredient returns with an item,     *)
(* parse_ingredient(format_ingredient(r)) has the item of r, a unit of the *)
(* family of r's unit and the numeric amount of r.                         *)
(***************************************************************************)
C16_FormatParseRoundTrip ==
    pc = "done" =>
        /\ ret.exc = "none"
        /\ ret.val.item = arg.item
        /\ UnitFamily(ret.val.unit) = UnitFamily(arg.unit)
        /\ SameAmount(ret.val, arg)


(***************************************************************************)
(* Vocabulary of the parsing strategies: the condition of each strategy on *)
(* the trimmed text.                                                       *)
(***************************************************************************)
Trimmed == strip(arg)

\* the text before and after the final ", "
CommaHead == SubSeq(Trimmed, 1, LastIndexOf(Trimmed, ", ") - 1)

CommaTail == DropFirst(Trimmed, LastIndexOf(Trimmed, ", ") + 1)

CommaMatches ==
    /\ Contains(Trimmed, ", ")
    /\ (LooksLikeQuantity(CommaTail) \/ _starts_with_informal(CommaTail))

InformalMatches ==
    \E k \in 1..Len(INFORMAL_UNITS) : startswith(lower(Trimmed), INFORMAL_UNITS[k])

\* the first phrase of the list that the text starts with
LeadingPhrase ==
    INFORMAL_UNITS[CHOOSE k \in 1..Len(INFORMAL_UNITS) :
        /\ startswith(lower(Trimmed), INFORMAL_UNITS[k])
        /\ \A j \in 1..(k - 1) : ~startswith(lower(Trimmed), INFORMAL_UNITS[j])]

TasteMatches == endswith(lower(Trimmed), " to taste")

(***************************************************************************)
(* C18: parse_ingredient returns the result of the first strategy, in the  *)
(* order empty input, comma layout, informal prefix, trailing "to taste",  *)
(* standard format, whose condition the text meets, whatever later         *)
(* strategies it meets too.                                                *)
(***************************************************************************)
C18_FirstStrategyWins ==
    pc = "done" =>
        IF arg = ""
        THEN ret = Ok([amount |-> "1", unit |-> "whole", item |-> ""])
        ELSE IF CommaMatches
        THEN /\ ret.exc = _parse_quantity_unit(CommaTail).exc
             /\ ret.exc = "none" =>
                   /\ ret.val.amount = _parse_quantity_unit(CommaTail).val.amount
                   /\ ret.val.unit = _parse_quantity_unit(CommaTail).val.unit
                   /\ ret.val.item = _clean_item(CommaHead)
        ELSE IF InformalMatches
        THEN /\ ret.exc = "none"
             /\ ret.val.amount = "1"
             /\ ret.val.unit = LeadingPhrase
             /\ ret.val.item = _clean_item(DropFirst(Trimmed, Len(LeadingPhrase)))
        ELSE IF TasteMatches
        THEN /\ ret.exc = "none"
             /\ ret.val.amount = "1"
             /\ ret.val.unit = "to taste"
             /\ ret.val.item = _clean_item(SubSeq(Trimmed, 1, Len(Trimmed) - 9))
        ELSE ret = _parse_standard_format(Trimmed)

C18_Witness ==
    /\ pc = "done"
    /\ arg = "some Salt to taste"
    /\ ret = Ok([amount |-> "1", unit |-> "some", item |-> "salt to taste"])


\* the tail begins with a digit or a slash
TailBeginsWithNumber == CommaTail # "" /\ (IsDigit(Head(CommaTail)) \/ Head(CommaTail) = "/")

\* the tail begins with an informal phrase
TailBeginsWithPhrase ==
    \E k \in 1..Len(INFORMAL_UNITS) : startswith(lower(strip(CommaTail)), INFORMAL_UNITS[k])

TailPhrase ==
    INFORMAL_UNITS[CHOOSE k \in 1..Len(INFORMAL_UNITS) :
        /\ startswith(lower(strip(CommaTail)), INFORMAL_UNITS[k])
        /\ \A j \in 1..(k - 1) : ~startswith(lower(strip(CommaTail)), INFORMAL_UNITS[j])]

(***************************************************************************)
(* C19: whenever the text holds ", " and the text after the final ", "     *)
(* begins with a digit, a fraction, a slash or an informal phrase,         *)
(* parse_ingredient returns the cleaned text before that ", " as the item, *)
(* and a tail that begins with an informal phrase gives that phrase as the *)
(* unit.  Stated for calls that return.                                    *)
(***************************************************************************)
C19_CommaLayout ==
    (/\ pc = "done"
     /\ ret.exc = "none"
     /\ Contains(Trimmed, ", ")
     /\ (TailBeginsWithNumber \/ TailBeginsWithPhrase))
    => /\ ret.val.item = _clean_item(CommaHead)
       /\ TailBeginsWithPhrase => ret.val.unit = TailPhrase

(***************************************************************************)
(* C20: the item that parse_ingredient returns is lowercased, has no       *)
(* whitespace at either end and does not end with , . ; or :               *)
(***************************************************************************)
C20_ItemClean ==
    (pc = "done" /\ ret.exc = "none") =>
        /\ ret.val.item = lower(ret.val.item)
        /\ ret.val.item = strip(ret.val.item)
        /\ ret.val.item = "" \/ Char(ret.val.item, Len(ret.val.item)) \notin {",", ".", ";", ":"}

KeysOf(rows) == [i \in 1..Len(rows) |-> ItemKey(rows[i])]

DistinctItems(seq) ==
    \A i, j \in 1..Len(seq) : i # j => ItemKey(seq[i]) # ItemKey(seq[j])

StandardApplies ==
    /\ Trimmed # ""
    /\ ~CommaMatches /\ ~InformalMatches /\ ~TasteMatches
    /\ StripInchNotation(Trimmed) = Trimmed
    /\ SkipAmount(Trimmed, 1) > 1

AfterAmount == strip(DropFirst(Trimmed, SkipAmount(Trimmed, 1) - 1))

WordAfterAmount == SubSeq(AfterAmount, 1, SkipWord(AfterAmount, 1) - 1)

AfterWord == DropFirst(AfterAmount, SkipWord(AfterAmount, 1) - 1)

IsSurfaceForm(w) == w # "" /\ (w = "T" \/ lower(w) \in DOMAIN UNIT_ABBREVIATIONS)

(***************************************************************************)
(* C23: in the standard format, when the first word after the amount is a  *)
(* surface form of the unit table, the unit is normalize_unit of that word *)
(* as written and the item is the cleaned remainder; "2 T butter" gives    *)
(* tbsp, "2 t salt" gives tsp, and "Butter, 2 T" gives tbsp too.           *)
(***************************************************************************)
C23_UnitAsWritten ==
    (pc = "done" /\ ret.exc = "none") =>
        /\ (StandardApplies /\ IsSurfaceForm(WordAfterAmount)) =>
              /\ ret.val.unit = normalize_unit(WordAfterAmount)
              /\ ret.val.item = _clean_item(AfterWord)
        /\ arg = "2 T butter" => ret.val.unit = "tbsp"
        /\ arg = "2 t salt" => ret.val.unit = "tsp"
        /\ arg = "Butter, 2 T" => ret.val.unit = "tbsp"

(***************************************************************************)
(* C24: every amount that aggregate_ingredients emits for a record with a  *)
(* numeric amount is in the normalized numeric format (a bare integer, or  *)
(* a decimal of at most two fractional digits without trailing zeros),     *)
(* also when the record is the only one of its item and family.            *)
(***************************************************************************)
C24_EmittedAmountNormalized ==
    pc = "done" =>
        \A i \in 1..Len(ret.val) :
            IsFloatAmount(ret.val[i]) => IsNormalizedNumber(ret.val[i].amount)

\* nothing of r goes into the text to re-parse: the item is empty, the
\* amount degenerate and the unit degenerate or a compound token
NothingToReparse(r) ==
    /\ Folded(r, "item") = ""
    /\ Folded(r, "amount") \in {"none", "null", ""}
    /\ Folded(r, "unit") \in {"none", "null", ""} \cup MALFORMED_UNITS

FourFields == {"amount", "unit", "item", "inferred"}

WholePhraseStart ==
    \E k \in 1..Len(INFORMAL_UNITS) :
        /\ startswith(lower(Trimmed), INFORMAL_UNITS[k])
        /\ \/ Len(Trimmed) = Len(INFORMAL_UNITS[k])
           \/ IsSpace(Char(Trimmed, Len(INFORMAL_UNITS[k]) + 1))

FirstWord == SubSeq(Trimmed, 1, SkipWord(Trimmed, 1) - 1)

(***************************************************************************)
(* C26: a text that begins with the characters of an informal phrase but   *)
(* not with the phrase as a whole (the phrase is followed by neither       *)
(* whitespace nor the end) is not split inside the word: with no comma     *)
(* layout, no trailing "to taste" and a first word that is no unit, its    *)
(* item is the cleaned whole text, its unit "whole" and its amount "1".    *)
(***************************************************************************)
C26_InformalWholePhrase ==
    (/\ pc = "done" /\ ret.exc = "none"
     /\ InformalMatches /\ ~WholePhraseStart
     /\ ~CommaMatches /\ ~TasteMatches
     /\ StripInchNotation(Trimmed) = Trimmed
     /\ lower(FirstWord) \notin KNOWN_UNITS \cup DOMAIN UNIT_ABBREVIATIONS)
    => ret.val = [amount |-> "1", unit |-> "whole", item |-> _clean_item(Trimmed)]

(***************************************************************************)
(* C27: a record whose only defect is a degenerate amount ("none", "null"  *)
(* or empty), with a unit that is neither degenerate nor a compound token  *)
(* and an item that is a plain lowercase word, is repaired by              *)
(* validate_ingredients into amount "1", the same unit normalized and the  *)
(* same item, never an item with the unit word before it.                  *)
(***************************************************************************)
C27_DegenerateAmountKeepsUnit ==
    (pc = "done" /\ ret.exc = "none") =>
        \A i \in 1..Len(arg) :
            (/\ IsDict(arg[i])
             /\ Folded(arg[i], "amount") \in {"none", "null", ""}
             /\ Folded(arg[i], "unit") \notin {"none", "null", ""} \cup MALFORMED_UNITS
             /\ "item" \in DOMAIN arg[i]
             /\ arg[i].item # None
             /\ IsPlainWord(arg[i].item))
            => /\ ret.val[DictRank(i)].amount = "1"
               /\ ret.val[DictRank(i)].unit = normalize_unit(strip(FieldText(arg[i], "unit")))
               /\ ret.val[DictRank(i)].item = arg[i].item

(***************************************************************************)
(* C28: validate_ingredients is idempotent: validating the list it         *)
(* returned gives that list again; every record it returns with an item    *)
(* that is not empty is not malformed.                                     *)
(***************************************************************************)
C28_ValidateIdempotent ==
    (pc = "done" /\ ret[1].exc = "none") =>
        /\ ret[2] = ret[1]
        /\ \A i \in 1..Len(ret[1].val) :
              Folded(ret[1].val[i], "item") # "" => ~MalformedAsSpecified(ret[1].val[i])

(***************************************************************************)
(* C29: aggregate_ingredients neither loses nor invents items: for every   *)
(* input list the call returns, the records whose normalized item name is  *)
(* empty are dropped, and the normalized item names of the output are      *)
(* exactly the non-empty normalized item names of the input.               *)
(***************************************************************************)
C29_ItemsPreserved ==
    pc = "done" =>
        /\ ret[1].exc = "none"
        /\ {ItemKey(ret[1].val[i]) : i \in 1..Len(ret[1].val)} = ArgKeys

(***************************************************************************)
(* C30: aggregate_ingredients is idempotent: for every input list, the     *)
(* call on the list and the call on the list it returned give the same     *)
(* sequence of entries, no entry being merged, re-formatted, moved to      *)
(* another family or reordered.                                            *)
(***************************************************************************)
C30_AggregateIdempotent ==
    pc = "done" => Len(ret) = 2 /\ ret[2].exc = "none" /\ ret[2] = ret[1]

(***************************************************************************)
(* C22: the pipeline carries no state between calls and has no side effect *)
(* on its arguments: a call leaves every dict and every list the caller    *)
(* holds as it was, and a call with a given input returns what the first   *)
(* call with that input returned.                                          *)
(***************************************************************************)
SameAnswer ==
    \A i, j \in 1..Len(ret) :
        (ret[i].fn = ret[j].fn /\ ret[i].input = ret[j].input)
            => ret[i].result = ret[j].result

ArgumentsKept ==
    /\ \A a \in 1..Len(arg.objs) : arg'.objs[a] = arg.objs[a]
    /\ \A l \in 1..Len(arg.lists) : arg'.lists[l] = arg.lists[l]

====
